---- MODULE Spec2Model ----
(***************************************************************************)
(* Verification model of the refchecker reference verification engine:     *)
(*   - ParallelReferenceProcessor (src/src/core/parallel_processor.py):    *)
(*     the work queue, the worker pool, the ordering buffer and the        *)
(*     statistics, with one process per thread (main, workers, printer);   *)
(*   - NonArxivReferenceChecker (src/src/checkers/semantic_scholar.py):    *)
(*     the retrying client calls, the fallback chain and the failure flag  *)
(*     of one checker instance used by several threads.                    *)
(***************************************************************************)
EXTENDS Integers, Sequences, FiniteSets, TLC

(* ------------------------------ bounds --------------------------------- *)

\* Largest bibliography handed to verify_references_parallel.
MaxRefs == 2

\* Largest max_workers of a processor (the constructor's parameter).
MaxWorkers == 2

\* Number of verify_reference calls made on one checker instance.
MaxCalls == 2

\* The rows the papers table of the local database holds at most (SpecMatch).
MaxPapers == 2

\* _update_stats calls in a series (SpecStats).
MaxUpdates == 4

\* The largest processing time of a result, in whole seconds (SpecStats).
MaxTime == 3

(* ----------------------------- constants -------------------------------- *)

\* self.max_retries of NonArxivReferenceChecker.
max_retries == 5

\* self.request_delay of NonArxivReferenceChecker (seconds).
request_delay == 1

\* self.backoff_factor of NonArxivReferenceChecker.
backoff_factor == 2

\* Python's None as a value of a result's fields (an absent url, absent data).
None == "None"

(* ------------------ ParallelReferenceProcessor: inputs ------------------ *)

\* What base_checker.verify_reference does for a reference (the checker is a
\* constructor argument of the processor): it returns a verdict without
\* findings, returns a verdict with findings, or raises an Exception.
Behaviours == {"verified", "mismatch", "raises"}

\* A reference of the bibliography, reduced to what the processor depends on:
\* the behaviour of base_checker.verify_reference on it, and whether
\* _print_reference_result completes for it (', '.join(authors), re.match on
\* raw_text and print can raise).
References == [behaviour : Behaviours, printable : BOOLEAN]

\* The bibliographies: sequences of references of length 0..MaxRefs.
Bibliographies == UNION {[1..n -> References] : n \in 0..MaxRefs}

\* The triple base_checker.verify_reference returns for a reference it does
\* not raise on: (errors, url, verified_data).
VerifyReferenceReturn(reference) ==
    IF reference.behaviour = "verified"
    THEN [errors |-> <<>>, url |-> "url", verified_data |-> "paper"]
    ELSE [errors |-> <<"author", "year">>, url |-> "url", verified_data |-> "paper"]

\* ReferenceWorkItem for enumerate(bibliography) position i (0-based).
ReferenceWorkItem(i) == [index |-> i]

\* The None put on the work queue to signal the end of work, as a queue entry
\* that no work item equals.
Sentinel == [index |-> -1]

\* ReferenceResult built by the worker from a normal return.
ReferenceResult(i, ret) ==
    [index |-> i, errors |-> ret.errors, url |-> ret.url, verified_data |-> ret.verified_data]

\* ReferenceResult built by the worker's except branch.
ErrorResult(i) ==
    [index |-> i, errors |-> <<"processing_failed">>, url |-> None, verified_data |-> None]

(* ------------------------------ state ----------------------------------- *)

VARIABLES
    bibliography,      \* the argument of verify_references_parallel
    result_callback,   \* TRUE when a callback was passed, FALSE for None
    max_workers,       \* self.max_workers
    work_queue,        \* self.work_queue: work items, then None sentinels
    result_queue,      \* self.result_queue
    result_buffer,     \* self.result_buffer: index -> ReferenceResult
    next_print_index,  \* self.next_print_index
    total_references,  \* self.total_references
    completed_count,   \* self.completed_count
    processing_stats,  \* self.processing_stats (counts)
    mpc,               \* position of the caller of verify_references_parallel
    wpc,               \* position of each worker in _worker_loop
    work_item,         \* each worker's local work_item
    ppc,               \* position of the printer thread
    delivered,         \* history: the results result_callback was invoked with
    dequeued,          \* history: per index, the workers that dequeued its work item
    verify_calls,      \* history: per index, how often verify_reference was invoked
    produced,          \* history: per index, the results put on result_queue
    error_log,         \* history: what logger.error reported, as <<event, index>>
    api_failed,        \* self._api_failed of the shared checker instance
    failure_reason,    \* self._failure_reason of the shared checker instance
    vpc,               \* position of each caller in verify_reference
    reference,         \* each caller's argument of verify_reference
    paper_data,        \* each caller's local paper_data
    verdict,           \* what each caller's last verify_reference returned
    own_exhausted,     \* history: a client call of this verification gave up
    definite,          \* history: a request of this verification was answered
    attempts_ok,       \* history: every call that gave up made max_retries requests
    calls_left,        \* verify_reference calls still to be started
    found_title,       \* each caller's local found_title: TRUE when a title was stored
    trace,             \* history: the strategies this verification invoked, with their outcome
    entered_with_flag, \* history: self._api_failed was set when this verification began
    cited,             \* the fields of the citations that cross-validation compares
    record,            \* the record the static source holds for the cited paper
    client_script,     \* the responses a server gives to one client call's attempts
    client_call,       \* what that client call did and returned
    external_ids,      \* the external_ids argument of get_best_available_url
    open_access_pdf,   \* its open_access_pdf argument
    paper_url,         \* what it returned
    papers,            \* the rows of the local database's papers table
    find_args,         \* the arguments of one local find_best_match call
    find_result,       \* what that call computed and returned
    timing_stats,      \* the timing entries of a processing_stats dictionary
    proc_times         \* history: the processing times _update_stats was given

pvars == <<bibliography, result_callback, max_workers, work_queue, result_queue,
          result_buffer, next_print_index, total_references, completed_count,
          processing_stats, mpc, wpc, work_item, ppc, delivered, dequeued,
          verify_calls, produced, error_log>>

\* The state of the NonArxivReferenceChecker instance and of its callers.
cvars == <<api_failed, failure_reason, vpc, reference, paper_data, verdict,
           own_exhausted, definite, attempts_ok, calls_left, found_title, trace,
           entered_with_flag>>

\* The locals and histories of verify_reference that only some steps touch.
lvars == <<found_title, trace, entered_with_flag>>

\* The citation fields and the source's record, fixed for a run.
dvars == <<cited, record>>

\* The state of one client call made on its own.
kvars == <<client_script, client_call>>

\* The arguments and the result of one get_best_available_url call.
uvars == <<external_ids, open_access_pdf, paper_url>>

\* The database, the arguments and the result of one find_best_match call.
mvars == <<papers, find_args, find_result>>

\* The timing statistics kept over a series of _update_stats calls.
tvars == <<timing_stats, proc_times>>

vars == <<pvars, cvars, dvars, kvars, uvars, mvars, tvars>>

Workers == 0..(max_workers - 1)

N == Len(bibliography)

\* The reference at 0-based index i.
Ref(i) == bibliography[i + 1]

(* ------------------------------ helpers --------------------------------- *)

\* The elements of a sequence.
Range(s) == {s[k] : k \in 1..Len(s)}

\* A queue populated with the sentinels ahead of the work items.
PopulatedQueueSentinelsFirst(n, w) ==
    [k \in 1..(n + w) |-> IF k <= w THEN Sentinel ELSE ReferenceWorkItem(k - w - 1)]


\* Queue contents after verify_references_parallel has populated it: one work
\* item per reference in order, then one sentinel per worker.
PopulatedQueue(n, w) ==
    [k \in 1..(n + w) |-> IF k <= n THEN ReferenceWorkItem(k - 1) ELSE Sentinel]

\* _update_stats: the counters.
UpdateStats(stats, result) ==
    [total_processed |-> stats.total_processed + 1,
     total_errors    |-> stats.total_errors + Len(result.errors)]

\* A function with one key removed (del self.result_buffer[k]).
Without(f, k) == [j \in DOMAIN f \ {k} |-> f[j]]

\* A function with one key set (self.result_buffer[k] = v).
With(f, k, v) == [j \in DOMAIN f \cup {k} |-> IF j = k THEN v ELSE f[j]]

(* ------------------- NonArxivReferenceChecker: inputs ------------------- *)

\* A reference as verify_reference reads it for the fallback chain: whether a
\* DOI is available (the doi field or a doi.org url), whether title is
\* non-empty, whether url contains an arXiv abs id, whether raw_text is
\* non-empty.
Citations == [doi : BOOLEAN, title : BOOLEAN, arxiv : BOOLEAN, raw_text : BOOLEAN]

\* The value of reference[t] while caller t runs no verification.
NoReference == [doi |-> FALSE, title |-> FALSE, arxiv |-> FALSE, raw_text |-> FALSE]

\* One HTTP response as the client's retry loop sees it: the rate limit
\* status, the not-found status, a request exception (a network fault, or an
\* error status that raise_for_status turns into one), or a 200 whose body is
\* a paper, an empty result list, a result list whose results score below the
\* threshold and carry another arXiv id or none ("low"), a result list with a
\* result that scores at or above the threshold but does not carry the cited
\* arXiv id ("match"), or a result list with a result that carries the cited
\* arXiv id and scores below the threshold ("id").
Responses ==
    {"429", "404", "exception", "200:paper", "200:empty", "200:low", "200:match", "200:id"}

\* The 200 bodies of the search endpoint and those that hold results.
SearchBodies == {"200:empty", "200:low", "200:match", "200:id"}

ResultLists == {"200:low", "200:match", "200:id"}

\* What the server answers the successive attempts of one client call:
\* k times a failure, then an answer that no longer changes.
Script(k, failure, answer) ==
    [a \in 1..max_retries |-> IF a <= k THEN failure ELSE answer]

SearchScripts ==
    {Script(k, f, r) : k \in 0..max_retries, f \in {"429", "exception"},
                       r \in {"404"} \cup SearchBodies}

DoiScripts ==
    {Script(k, f, r) : k \in 0..max_retries, f \in {"429", "exception"},
                       r \in {"404", "200:paper"}}

\* Outcomes of the single request of _get_paper_from_arxiv_api: an entry, no
\* entry, or any exception (caught, None is returned).
ArxivApiOutcomes == {"entry", "no_entry", "error"}

(* ------------- NonArxivReferenceChecker: cross-validated fields --------- *)

\* A DOI: registrant prefix, suffix after the slash (0: none), whether the
\* suffix is written in upper case, whether a '#' fragment follows.
Dois == [prefix : {1}, suffix : {1, 2}, upper : BOOLEAN, fragment : BOOLEAN]

\* No DOI: None or the empty string.
NoDoi == [prefix |-> 0, suffix |-> 0, upper |-> FALSE, fragment |-> FALSE]

\* doi.split('#')[0]
StripFragment(doi) == [doi EXCEPT !.fragment = FALSE]

\* doi.lower()
Lower(doi) == [doi EXCEPT !.upper = FALSE]

\* extract_doi_from_url for a doi.org url of the given DOI: the group
\* ([^/\s]+) after "doi.org/" ends at the slash between prefix and suffix.
ExtractDoiFromUrl(doi) ==
    [prefix |-> doi.prefix, suffix |-> 0, upper |-> FALSE, fragment |-> FALSE]

\* The arXiv id in a citation's arxiv.org/abs/ url; other ids differ from it.
CitedArxivId == 1

\* f"https://arxiv.org/abs/{arxiv_id}"
ArxivUrl(arxiv_id) ==
    IF arxiv_id = CitedArxivId THEN "https://arxiv.org/abs/1" ELSE "https://arxiv.org/abs/2"

\* The fields of a citation that do not steer the fallback chain: whether
\* authors are cited, the cited year (0: none), whether a venue is cited,
\* whether raw_text is in the author#title#venue#year#url form with a venue
\* part, the DOI the citation carries when it carries one, and whether it
\* carries it in its doi field or in a doi.org url.
CitedFields ==
    [authors : BOOLEAN, year : {0, 2017}, venue : BOOLEAN, raw_venue : BOOLEAN,
     doi : Dois, doi_source : {"field", "url"}]

\* The DOIs records carry.
RecordDois == {d \in Dois : d.suffix = 1 /\ d.upper = d.fragment}

\* A record of the source as cross-validation reads it: whether its title is
\* similar to the cited one (calculate_title_similarity at or above the
\* threshold), whether compare_authors accepts the cited authors, its year
\* (0: none), whether it has a venue and whether
\* are_venues_substantially_different holds of it and the cited venue, its
\* externalIds.ArXiv (0: none) and externalIds.DOI, whether it has an
\* openAccessPdf url and a url.
Records ==
    [title_similar : BOOLEAN, authors_match : BOOLEAN, year : {0, 2017, 2018},
     venue : BOOLEAN, venue_differs : BOOLEAN, arxiv : {0, CitedArxivId, 2},
     doi : {NoDoi} \cup RecordDois, open_access_pdf : BOOLEAN, url : BOOLEAN]

\* A citation and a record that agree in every field.
AgreeingCitation ==
    [authors |-> TRUE, year |-> 2017, venue |-> TRUE, raw_venue |-> FALSE,
     doi |-> [prefix |-> 1, suffix |-> 1, upper |-> FALSE, fragment |-> FALSE],
     doi_source |-> "field"]

AgreeingRecord ==
    [title_similar |-> TRUE, authors_match |-> TRUE, year |-> 2017, venue |-> TRUE,
     venue_differs |-> FALSE, arxiv |-> 0,
     doi |-> [prefix |-> 1, suffix |-> 1, upper |-> FALSE, fragment |-> FALSE],
     open_access_pdf |-> FALSE, url |-> TRUE]

\* The record _get_paper_from_arxiv_api synthesizes for the cited arXiv id:
\* title, authors and year come from the entry, the rest is fixed.
ArxivApiRecord(entry) ==
    [entry EXCEPT !.arxiv = CitedArxivId, !.venue = TRUE, !.doi = NoDoi,
                  !.open_access_pdf = TRUE, !.url = TRUE]

(* --------------------- NonArxivReferenceChecker: client ----------------- *)

\* A wait that grows by request_delay with every attempt instead of doubling.
WaitTimeLinear(attempt) == request_delay * (attempt + 1)


\* The wait before the retry that follows a failure at the given attempt.
WaitTime(attempt) == request_delay * (backoff_factor ^ attempt)

\* The retry loop of search_paper from the given attempt on: the data
\* returned, whether all retries failed, the requests made and the waits.
RECURSIVE SearchAttempts(_, _, _, _)
SearchAttempts(script, attempt, requests, waits) ==
    IF attempt >= max_retries
    THEN [data |-> "200:empty", failed |-> TRUE, requests |-> requests, waits |-> waits]
    ELSE LET response == script[attempt + 1] IN
         IF response = "429"
         THEN SearchAttempts(script, attempt + 1, requests + 1,
                             Append(waits, WaitTime(attempt)))
         ELSE IF response \in {"200:paper"} \cup SearchBodies
         \* data.get('data', []): a body without result list gives []
         THEN [data |-> IF response = "200:paper" THEN "200:empty" ELSE response, failed |-> FALSE, requests |-> requests + 1,
               waits |-> waits]
         \* raise_for_status raises for 404 as for any error status
         ELSE SearchAttempts(script, attempt + 1, requests + 1,
                             Append(waits, WaitTime(attempt)))

\* search_paper with a retry loop that gives up one attempt early.
SearchPaperGivesUpEarly(script) == SearchAttempts(script, 1, 0, <<>>)


\* search_paper.
SearchPaper(script) == SearchAttempts(script, 0, 0, <<>>)

\* The retry loop of get_paper_by_doi from the given attempt on.
RECURSIVE DoiAttempts(_, _, _, _)
DoiAttempts(script, attempt, requests, waits) ==
    IF attempt >= max_retries
    THEN [data |-> None, failed |-> TRUE, requests |-> requests, waits |-> waits]
    ELSE LET response == script[attempt + 1] IN
         IF response = "429"
         THEN DoiAttempts(script, attempt + 1, requests + 1,
                          Append(waits, WaitTime(attempt)))
         ELSE IF response = "404"
         THEN [data |-> None, failed |-> FALSE, requests |-> requests + 1,
               waits |-> waits]
         ELSE IF response \in {"200:paper"} \cup SearchBodies
         THEN [data |-> "paper", failed |-> FALSE, requests |-> requests + 1,
               waits |-> waits]
         ELSE DoiAttempts(script, attempt + 1, requests + 1,
                          Append(waits, WaitTime(attempt)))

\* get_paper_by_doi with one request more than its retry loop allows.
GetPaperByDoiExtraRequest(script) ==
    [DoiAttempts(script, 0, 0, <<>>) EXCEPT !.requests = @ + 1]


\* get_paper_by_doi.
GetPaperByDoi(script) == DoiAttempts(script, 0, 0, <<>>)

\* Every way a search_paper call can go against the scripted servers.
SearchCalls == {SearchPaper(script) : script \in SearchScripts}

\* Every way a get_paper_by_doi call can go against the scripted servers.
DoiCalls == {GetPaperByDoi(script) : script \in DoiScripts}

(* ---------------- NonArxivReferenceChecker.verify_reference ------------- *)

\* The value of verdict[t] before caller t's first verification returns.
NoVerdict == [verified_data |-> None, errors |-> <<"no verdict">>, url |-> None]

\* return None, [api_failure finding], None
ApiFailureVerdict(reason) ==
    [verified_data |-> None,
     errors |-> <<[error_type |-> "api_failure", failure_reason |-> reason]>>,
     url |-> None]

\* return None, [], None
NotFoundVerdict == [verified_data |-> None, errors |-> <<>>, url |-> None]

\* The local doi of verify_reference: the doi field, else what
\* extract_doi_from_url finds in the url, else none.
CitedDoi(ref, fields) ==
    IF ~ref.doi THEN NoDoi
    ELSE IF fields.doi_source = "field" THEN fields.doi
    ELSE ExtractDoiFromUrl(fields.doi)

\* arxiv_id_match: the id in the citation's arxiv.org/abs/ url equals the
\* record's externalIds.ArXiv.
ArxivIdMatch(ref, paper) == ref.arxiv /\ paper.arxiv = CitedArxivId

\* Check title: only when found_title holds a title.
TitleFindings(found, paper) ==
    IF found /\ ~paper.title_similar
    THEN <<[error_type |-> "title", ref_title_correct |-> "record title"]>>
    ELSE <<>>

\* An author check that reports every mismatch as an error.
AuthorFindingsAlwaysError(ref, fields, paper) ==
    IF fields.authors /\ ~paper.authors_match
    THEN <<[error_type |-> "author", ref_authors_correct |-> "record authors"]>>
    ELSE <<>>

\* Verify authors.
AuthorFindings(ref, fields, paper) ==
    IF fields.authors /\ ~paper.authors_match
    THEN IF ArxivIdMatch(ref, paper)
         THEN <<[warning_type |-> "author", ref_authors_correct |-> "record authors"]>>
         ELSE <<[error_type |-> "author", ref_authors_correct |-> "record authors"]>>
    ELSE <<>>

\* A year check that reports the mismatch as an error.
YearFindingsAsError(ref, fields, paper) ==
    IF fields.year # 0 /\ paper.year # 0 /\ fields.year # paper.year
    THEN <<[error_type |-> "year", ref_year_correct |-> paper.year,
            note |-> ArxivIdMatch(ref, paper)]>>
    ELSE <<>>

\* Verify year.
YearFindings(ref, fields, paper) ==
    IF fields.year # 0 /\ paper.year # 0 /\ fields.year # paper.year
    THEN <<[warning_type |-> "year", ref_year_correct |-> paper.year,
            note |-> ArxivIdMatch(ref, paper)]>>
    ELSE <<>>

\* A venue check that suggests the arXiv url in addition to the comparison.
VenueFindingsAndSuggestion(ref, fields, paper) ==
    (IF fields.venue /\ paper.venue /\ paper.venue_differs
     THEN <<[warning_type |-> "venue", warning_details |-> "Venue mismatch",
             ref_venue_correct |-> "record venue"]>>
     ELSE <<>>)
    \o (IF paper.venue /\ paper.arxiv # 0
        THEN <<[warning_type |-> "venue",
                warning_details |-> "Reference should include arXiv URL",
                ref_url_correct |-> ArxivUrl(paper.arxiv)]>>
        ELSE <<>>)

\* Verify venue.
VenueFindings(ref, fields, paper) ==
    IF fields.venue /\ paper.venue
    THEN IF paper.venue_differs
         THEN <<[warning_type |-> "venue", warning_details |-> "Venue mismatch",
                 ref_venue_correct |-> "record venue"]>>
         ELSE <<>>
    ELSE IF ~fields.venue /\ paper.venue
    THEN IF paper.arxiv # 0
         THEN <<[warning_type |-> "venue",
                 warning_details |-> "Reference should include arXiv URL",
                 ref_url_correct |-> ArxivUrl(paper.arxiv)]>>
         ELSE IF ref.raw_text /\ fields.raw_venue
         THEN <<[warning_type |-> "venue", warning_details |-> "Venue missing",
                 ref_venue_correct |-> "record venue"]>>
         ELSE <<>>
    ELSE <<>>

\* Verify DOI: both present and different once fragments are stripped and
\* case is ignored.
DoiFindings(doi, paper) ==
    IF /\ doi # NoDoi
       /\ paper.doi # NoDoi
       /\ Lower(StripFragment(doi)) # Lower(StripFragment(paper.doi))
    THEN <<[error_type |-> "doi", ref_doi_correct |-> paper.doi]>>
    ELSE <<>>

\* A url selection that prefers the open access PDF.
PaperUrlPdfFirst(paper) ==
    IF paper.open_access_pdf THEN "openAccessPdf url"
    ELSE IF paper.arxiv # 0 THEN ArxivUrl(paper.arxiv)
    ELSE IF paper.url THEN "url"
    ELSE IF paper.doi # NoDoi THEN "https://doi.org/ url of the record's DOI"
    ELSE None

\* Extract URL from paper data: arXiv abs url, open access PDF url, url
\* field, DOI url (as construct_doi_url builds it), None.
PaperUrl(paper) ==
    IF paper.arxiv # 0 THEN ArxivUrl(paper.arxiv)
    ELSE IF paper.open_access_pdf THEN "openAccessPdf url"
    ELSE IF paper.url THEN "url"
    ELSE IF paper.doi # NoDoi THEN "https://doi.org/ url of the record's DOI"
    ELSE None

\* Lines 355-516: the findings and the url for an accepted candidate.
CrossValidate(ref, fields, found, paper) ==
    [errors |-> TitleFindings(found, paper)
                  \o AuthorFindings(ref, fields, paper)
                  \o YearFindings(ref, fields, paper)
                  \o VenueFindings(ref, fields, paper)
                  \o DoiFindings(CitedDoi(ref, fields), paper),
     url |-> PaperUrl(paper)]

\* The record behind a caller's paper_data.
Paper(t) == IF paper_data[t] = "arxiv_paper" THEN ArxivApiRecord(record) ELSE record

\* A found verdict that also reports the failure flag when it is set.
FoundVerdictWithFailure(t) ==
    LET checked == CrossValidate(reference[t], cited, found_title[t], Paper(t))
    IN [verified_data |-> paper_data[t],
        errors |-> IF api_failed
                   THEN checked.errors \o ApiFailureVerdict(failure_reason).errors
                   ELSE checked.errors,
        url |-> checked.url]


\* return paper_data, errors, paper_url
FoundVerdict(t) ==
    LET checked == CrossValidate(reference[t], cited, found_title[t], Paper(t))
    IN [verified_data |-> paper_data[t], errors |-> checked.errors, url |-> checked.url]

\* The history of a client call that has returned.
Recorded(t, call) ==
    /\ own_exhausted' = [own_exhausted EXCEPT ![t] = @ \/ call.failed]
    /\ definite' = [definite EXCEPT ![t] = @ \/ ~call.failed]
    /\ attempts_ok' = [attempts_ok EXCEPT
                         ![t] = @ /\ (call.failed => call.requests = max_retries)]

\* The history of a strategy that was invoked: whether it yielded the
\* candidate and, for the arXiv id search, whether a result carried the cited
\* arXiv id.
Invoked(t, strategy, found, cited_id) ==
    trace' = [trace EXCEPT ![t] = Append(@, [strategy |-> strategy, found |-> found,
                                             cited_id |-> cited_id])]

\* The effect of a client call that has returned on the instance and on the
\* caller's position: after all retries failed the flag is set and the
\* reason is still to be written before the caller goes on at `then`.
Returned(t, call, then) ==
    IF call.failed
    THEN /\ api_failed' = TRUE
         /\ vpc' = [vpc EXCEPT ![t] = "reason, then " \o then]
    ELSE /\ api_failed' = api_failed
         /\ vpc' = [vpc EXCEPT ![t] = then]

\* A verify_reference that began without clearing the flag.
VerifyReferenceKeepsFlag(t) ==
    /\ vpc[t] \in {"idle", "returned", "raised"}
    /\ calls_left > 0
    /\ calls_left' = calls_left - 1
    /\ \E c \in Citations :
        \* a url is a doi.org url or an arxiv.org/abs/ url, not both
        /\ (cited.doi_source = "url" /\ c.doi) => ~c.arxiv
        /\ reference' = [reference EXCEPT ![t] = c]
    /\ api_failed' = api_failed
    /\ paper_data' = [paper_data EXCEPT ![t] = None]
    /\ own_exhausted' = [own_exhausted EXCEPT ![t] = FALSE]
    /\ definite' = [definite EXCEPT ![t] = FALSE]
    /\ attempts_ok' = [attempts_ok EXCEPT ![t] = TRUE]
    /\ found_title' = [found_title EXCEPT ![t] = FALSE]
    /\ trace' = [trace EXCEPT ![t] = <<>>]
    /\ entered_with_flag' = [entered_with_flag EXCEPT ![t] = api_failed]
    /\ vpc' = [vpc EXCEPT ![t] = "reset"]
    /\ UNCHANGED <<failure_reason, verdict, pvars, dvars, kvars, uvars, mvars, tvars>>

\* Entry of verify_reference, first statement: self._api_failed = False.
VerifyReference(t) ==
    /\ vpc[t] \in {"idle", "returned", "raised"}
    /\ calls_left > 0
    /\ calls_left' = calls_left - 1
    /\ \E c \in Citations :
        \* a url is a doi.org url or an arxiv.org/abs/ url, not both
        /\ (cited.doi_source = "url" /\ c.doi) => ~c.arxiv
        /\ reference' = [reference EXCEPT ![t] = c]
    /\ api_failed' = FALSE
    /\ paper_data' = [paper_data EXCEPT ![t] = None]
    /\ own_exhausted' = [own_exhausted EXCEPT ![t] = FALSE]
    /\ definite' = [definite EXCEPT ![t] = FALSE]
    /\ attempts_ok' = [attempts_ok EXCEPT ![t] = TRUE]
    /\ found_title' = [found_title EXCEPT ![t] = FALSE]
    /\ trace' = [trace EXCEPT ![t] = <<>>]
    /\ entered_with_flag' = [entered_with_flag EXCEPT ![t] = api_failed]
    /\ vpc' = [vpc EXCEPT ![t] = "reset"]
    /\ UNCHANGED <<failure_reason, verdict, pvars, dvars, kvars, uvars, mvars, tvars>>

\* Second statement: self._failure_reason = None.
ResetReason(t) ==
    /\ vpc[t] = "reset"
    /\ failure_reason' = None
    /\ vpc' = [vpc EXCEPT ![t] = "doi"]
    /\ UNCHANGED <<api_failed, reference, paper_data, verdict, own_exhausted,
                   definite, attempts_ok, calls_left, pvars, lvars, dvars, kvars, uvars, mvars, tvars>>

\* self._failure_reason = "rate_limited_or_timeout", the statement after the
\* flag is set at the end of search_paper and of get_paper_by_doi.
SetReason(t) ==
    /\ \E then \in {"title", "arxiv", "arxiv_api", "raw", "check"} :
        /\ vpc[t] = "reason, then " \o then
        /\ vpc' = [vpc EXCEPT ![t] = then]
    /\ failure_reason' = "rate_limited_or_timeout"
    /\ UNCHANGED <<api_failed, reference, paper_data, verdict, own_exhausted,
                   definite, attempts_ok, calls_left, pvars, lvars, dvars, kvars, uvars, mvars, tvars>>

\* No DOI: the DOI lookup is not made.
DoiSkipped(t) ==
    /\ vpc[t] = "doi"
    /\ ~reference[t].doi
    /\ vpc' = [vpc EXCEPT ![t] = "title"]
    /\ UNCHANGED <<api_failed, failure_reason, reference, paper_data, verdict,
                   own_exhausted, definite, attempts_ok, calls_left, pvars, lvars, dvars, kvars, uvars, mvars, tvars>>

\* paper_data = self.get_paper_by_doi(doi)
DoiLookup(t) ==
    /\ vpc[t] = "doi"
    /\ reference[t].doi
    /\ \E call \in DoiCalls :
        /\ paper_data' = [paper_data EXCEPT ![t] = call.data]
        /\ Invoked(t, "doi", call.data # None, FALSE)
        /\ Recorded(t, call)
        /\ Returned(t, call, "title")
    /\ UNCHANGED <<failure_reason, reference, verdict, calls_left, found_title,
                   entered_with_flag, pvars, dvars, kvars, uvars, mvars, tvars>>

\* A title search made although a paper was found already or no title cited.
TitleSearchRegardless(t) ==
    /\ vpc[t] = "title"
    /\ ~(paper_data[t] = None /\ reference[t].title)
    /\ \E call \in SearchCalls :
        LET found == call.data = "200:match"
        IN /\ paper_data' = [paper_data EXCEPT ![t] = IF found THEN "paper" ELSE None]
           /\ found_title' = [found_title EXCEPT ![t] = found]
           /\ Invoked(t, "title", found, FALSE)
           /\ Recorded(t, call)
           /\ Returned(t, call, "arxiv")
    /\ UNCHANGED <<failure_reason, reference, verdict, calls_left, entered_with_flag,
                   pvars, dvars, kvars, uvars, mvars, tvars>>

\* The title search is not made: a paper was found already, or no title.
TitleSkipped(t) ==
    /\ vpc[t] = "title"
    /\ ~(paper_data[t] = None /\ reference[t].title)
    /\ vpc' = [vpc EXCEPT ![t] = "arxiv"]
    /\ UNCHANGED <<api_failed, failure_reason, reference, paper_data, verdict,
                   own_exhausted, definite, attempts_ok, calls_left, pvars, lvars, dvars, kvars, uvars, mvars, tvars>>

\* search_results = self.search_paper(cleaned_title, year) and the selection
\* of the best match at or above the threshold.
TitleSearch(t) ==
    /\ vpc[t] = "title"
    /\ paper_data[t] = None /\ reference[t].title
    /\ \E call \in SearchCalls :
        LET found == call.data = "200:match"
        IN /\ paper_data' = [paper_data EXCEPT ![t] = IF found THEN "paper" ELSE None]
           /\ found_title' = [found_title EXCEPT ![t] = found]
           /\ Invoked(t, "title", found, FALSE)
           /\ Recorded(t, call)
           /\ Returned(t, call, "arxiv")
    /\ UNCHANGED <<failure_reason, reference, verdict, calls_left, entered_with_flag,
                   pvars, dvars, kvars, uvars, mvars, tvars>>

\* The arXiv id search is not made: a paper was found already, or the url
\* holds no arXiv abs id.
ArxivSkipped(t) ==
    /\ vpc[t] = "arxiv"
    /\ ~(paper_data[t] = None /\ reference[t].arxiv)
    /\ vpc' = [vpc EXCEPT ![t] = "raw"]
    /\ UNCHANGED <<api_failed, failure_reason, reference, paper_data, verdict,
                   own_exhausted, definite, attempts_ok, calls_left, pvars, lvars, dvars, kvars, uvars, mvars, tvars>>

\* An arXiv id search that accepted by title score, not by id.
ArxivSearchByScore(t) ==
    /\ vpc[t] = "arxiv"
    /\ paper_data[t] = None /\ reference[t].arxiv
    /\ \E call \in SearchCalls :
        LET found == call.data = "200:match"
        IN /\ paper_data' = [paper_data EXCEPT ![t] = IF found THEN "paper" ELSE None]
           /\ found_title' = [found_title EXCEPT ![t] = found]
           /\ Invoked(t, "arxiv", found, call.data = "200:id")
           /\ Recorded(t, call)
           /\ Returned(t, call, IF found THEN "raw" ELSE "arxiv_api")
    /\ UNCHANGED <<failure_reason, reference, verdict, calls_left, entered_with_flag,
                   pvars, dvars, kvars, uvars, mvars, tvars>>

\* search_results = self.search_paper(f"arXiv:{arxiv_id}"): a result whose
\* ArXiv external id equals the cited id is taken, else the arXiv API is next.
ArxivSearch(t) ==
    /\ vpc[t] = "arxiv"
    /\ paper_data[t] = None /\ reference[t].arxiv
    /\ \E call \in SearchCalls :
        LET found == call.data = "200:id"
        IN /\ paper_data' = [paper_data EXCEPT ![t] = IF found THEN "paper" ELSE None]
           /\ found_title' = [found_title EXCEPT ![t] = found]
           /\ Invoked(t, "arxiv", found, call.data = "200:id")
           /\ Recorded(t, call)
           /\ Returned(t, call, IF found THEN "raw" ELSE "arxiv_api")
    /\ UNCHANGED <<failure_reason, reference, verdict, calls_left, entered_with_flag,
                   pvars, dvars, kvars, uvars, mvars, tvars>>

\* arxiv_paper = self._get_paper_from_arxiv_api(arxiv_id): one request, any
\* exception is caught there and the failure flag is not touched.
ArxivApi(t) ==
    /\ vpc[t] = "arxiv_api"
    /\ \E outcome \in ArxivApiOutcomes :
        /\ paper_data' = [paper_data EXCEPT
                            ![t] = IF outcome = "entry" THEN "arxiv_paper" ELSE None]
        /\ found_title' = [found_title EXCEPT ![t] = outcome = "entry"]
        /\ Invoked(t, "arxiv_api", outcome = "entry", FALSE)
        /\ definite' = [definite EXCEPT ![t] = @ \/ outcome # "error"]
    /\ vpc' = [vpc EXCEPT ![t] = "raw"]
    /\ UNCHANGED <<api_failed, failure_reason, reference, verdict, own_exhausted,
                   attempts_ok, calls_left, entered_with_flag, pvars, dvars, kvars, uvars, mvars, tvars>>

\* The raw text search is not made: a paper was found already, or no raw text.
RawSkipped(t) ==
    /\ vpc[t] = "raw"
    /\ ~(paper_data[t] = None /\ reference[t].raw_text)
    /\ vpc' = [vpc EXCEPT ![t] = "check"]
    /\ UNCHANGED <<api_failed, failure_reason, reference, paper_data, verdict,
                   own_exhausted, definite, attempts_ok, calls_left, pvars, lvars, dvars, kvars, uvars, mvars, tvars>>

\* search_results = self.search_paper(normalized_raw_query) and the selection
\* of the best match against cleaned_title, a name the title search binds.
RawSearch(t) ==
    /\ vpc[t] = "raw"
    /\ paper_data[t] = None /\ reference[t].raw_text
    /\ \E call \in SearchCalls :
        LET results == call.data \in ResultLists
            found == call.data = "200:match"
        IN /\ ~(results /\ ~reference[t].title)
           /\ paper_data' = [paper_data EXCEPT ![t] = IF found THEN "paper" ELSE None]
           /\ found_title' = [found_title EXCEPT ![t] = found]
           /\ Invoked(t, "raw", found, FALSE)
           /\ Recorded(t, call)
           /\ Returned(t, call, "check")
    /\ UNCHANGED <<failure_reason, reference, verdict, calls_left, entered_with_flag,
                   pvars, dvars, kvars, uvars, mvars, tvars>>

\* The raw text search returns results for a reference without title:
\* find_best_match(search_results, cleaned_title, ...) reads the unbound
\* local cleaned_title and verify_reference raises.
RawSearchRaises(t) ==
    /\ vpc[t] = "raw"
    /\ paper_data[t] = None /\ reference[t].raw_text
    /\ ~reference[t].title
    /\ \E call \in SearchCalls :
        /\ call.data \in ResultLists
        /\ Invoked(t, "raw", FALSE, FALSE)
        /\ Recorded(t, call)
    /\ vpc' = [vpc EXCEPT ![t] = "raised"]
    /\ verdict' = [verdict EXCEPT ![t] = NoVerdict]
    /\ UNCHANGED <<api_failed, failure_reason, reference, paper_data, calls_left,
                   found_title, entered_with_flag, pvars, dvars, kvars, uvars, mvars, tvars>>

\* A paper was found: cross-validation, url selection and the return.
ReturnFound(t) ==
    /\ vpc[t] = "check"
    /\ paper_data[t] # None
    /\ verdict' = [verdict EXCEPT ![t] = FoundVerdict(t)]
    /\ vpc' = [vpc EXCEPT ![t] = "returned"]
    /\ UNCHANGED <<api_failed, failure_reason, reference, paper_data, own_exhausted,
                   definite, attempts_ok, calls_left, pvars, lvars, dvars, kvars, uvars, mvars, tvars>>

\* No paper and "if self._api_failed" reads False: return None, [], None.
ReturnNotFound(t) ==
    /\ vpc[t] = "check"
    /\ paper_data[t] = None
    /\ ~api_failed
    /\ verdict' = [verdict EXCEPT ![t] = NotFoundVerdict]
    /\ vpc' = [vpc EXCEPT ![t] = "returned"]
    /\ UNCHANGED <<api_failed, failure_reason, reference, paper_data, own_exhausted,
                   definite, attempts_ok, calls_left, pvars, lvars, dvars, kvars, uvars, mvars, tvars>>

\* No paper and "if self._api_failed" reads True: the finding is built next.
CheckFailed(t) ==
    /\ vpc[t] = "check"
    /\ paper_data[t] = None
    /\ api_failed
    /\ vpc' = [vpc EXCEPT ![t] = "format"]
    /\ UNCHANGED <<api_failed, failure_reason, reference, paper_data, verdict,
                   own_exhausted, definite, attempts_ok, calls_left, pvars, lvars, dvars, kvars, uvars, mvars, tvars>>

\* The api_failure finding is built from self._failure_reason and returned.
ReturnApiFailure(t) ==
    /\ vpc[t] = "format"
    /\ verdict' = [verdict EXCEPT ![t] = ApiFailureVerdict(failure_reason)]
    /\ vpc' = [vpc EXCEPT ![t] = "returned"]
    /\ UNCHANGED <<api_failed, failure_reason, reference, paper_data, own_exhausted,
                   definite, attempts_ok, calls_left, pvars, lvars, dvars, kvars, uvars, mvars, tvars>>

(* ------------------------------- Init ----------------------------------- *)

\* ParallelReferenceProcessor.__init__, for some max_workers >= 1.
ProcessorInit ==
    /\ max_workers \in 1..MaxWorkers
    /\ bibliography = <<>>
    /\ result_callback = FALSE
    /\ work_queue = <<>>
    /\ result_queue = <<>>
    /\ result_buffer = <<>>
    /\ next_print_index = 0
    /\ total_references = 0
    /\ completed_count = 0
    /\ processing_stats = [total_processed |-> 0, total_errors |-> 0]
    /\ mpc = "idle"
    /\ wpc = [w \in Workers |-> "unstarted"]
    /\ work_item = [w \in Workers |-> Sentinel]
    /\ ppc = "unstarted"
    /\ delivered = <<>>
    /\ dequeued = <<>>
    /\ verify_calls = <<>>
    /\ produced = <<>>
    /\ error_log = {}

\* NonArxivReferenceChecker.__init__; no verify_reference call is running.
CheckerInit ==
    /\ api_failed = FALSE
    /\ failure_reason = None
    /\ vpc = [t \in Workers |-> "idle"]
    /\ reference = [t \in Workers |-> NoReference]
    /\ paper_data = [t \in Workers |-> None]
    /\ verdict = [t \in Workers |-> NoVerdict]
    /\ own_exhausted = [t \in Workers |-> FALSE]
    /\ definite = [t \in Workers |-> FALSE]
    /\ attempts_ok = [t \in Workers |-> TRUE]
    /\ found_title = [t \in Workers |-> FALSE]
    /\ trace = [t \in Workers |-> <<>>]
    /\ entered_with_flag = [t \in Workers |-> FALSE]

\* The value of client_call while no call has been made on its own.
NoCall == [method |-> "none", data |-> None, failed |-> FALSE, requests |-> 0,
           waits |-> <<>>]

\* No client call is made on its own.
ClientIdle ==
    /\ client_script = <<>>
    /\ client_call = NoCall

\* The value of paper_url while get_best_available_url has not returned.
NoUrl == "no call"

\* No get_best_available_url call is made on its own.
UrlIdle ==
    /\ external_ids = <<>>
    /\ open_access_pdf = None
    /\ paper_url = NoUrl

\* A title as text: the symbols of its characters in order (a word, one
\* space, a hyphen or a full stop each) and whether it is capitalised.
NoTitle == [text |-> <<>>, upper |-> FALSE]

\* The value of find_args while no find_best_match call is made.
NoArgs == [title |-> NoTitle, authors |-> FALSE, year |-> 0]

\* The row find_best_match has when it returns None.
NoPaper == [title |-> NoTitle, author_match |-> FALSE, year |-> 0]

\* The value of find_result before the call returns.
NoFind == [called |-> FALSE, scores |-> <<>>, best_match |-> 0, best_score |-> 0,
           returned |-> NoPaper]

\* No find_best_match call is made on its own.
MatchIdle ==
    /\ papers = <<>>
    /\ find_args = NoArgs
    /\ find_result = NoFind

\* float('inf'): above every processing time.
Infinity == MaxTime + 1

\* The timing entries of processing_stats as __init__ creates them; the
\* average is held as a fraction.
NewTimingStats ==
    [total_processed |-> 0, avg_processing_time |-> [num |-> 0, den |-> 1],
     fastest_time |-> Infinity, slowest_time |-> 0]

\* No series of _update_stats calls is made on its own.
TimingIdle ==
    /\ timing_stats = NewTimingStats
    /\ proc_times = <<>>

\* The citations of the run and the source's record agree in every field.
Agreeing ==
    /\ cited = AgreeingCitation
    /\ record = AgreeingRecord

\* The processor with its checker behind base_checker, before any batch.
Init ==
    /\ ProcessorInit
    /\ CheckerInit
    /\ ClientIdle
    /\ UrlIdle
    /\ MatchIdle
    /\ TimingIdle
    /\ Agreeing
    /\ calls_left = 0

(* --------------------- verify_references_parallel ----------------------- *)

\* An empty call that resets the batch attributes before it returns.
CallEmptyAfterReset ==
    /\ mpc = "idle"
    /\ mpc' = "returned"
    /\ total_references' = 0
    /\ next_print_index' = 0
    /\ completed_count' = 0
    /\ result_buffer' = <<>>
    /\ UNCHANGED <<bibliography, result_callback, max_workers, work_queue,
                   result_queue, processing_stats, wpc, work_item, ppc,
                   delivered, dequeued, verify_calls, produced,
                   error_log, cvars, dvars, kvars, uvars, mvars, tvars>>


\* The call with an empty bibliography: returns the statistics at once.
CallEmpty ==
    /\ mpc = "idle"
    /\ mpc' = "returned"
    /\ UNCHANGED <<bibliography, result_callback, max_workers, work_queue,
                   result_queue, result_buffer, next_print_index, total_references,
                   completed_count, processing_stats, wpc, work_item, ppc,
                   delivered, dequeued, verify_calls, produced,
                   error_log, cvars, dvars, kvars, uvars, mvars, tvars>>

\* The call with a non-empty bibliography, up to the point where the printer
\* thread and the worker threads are started.
Call ==
    /\ mpc = "idle"
    /\ \E bib \in Bibliographies \ {<<>>}, cb \in BOOLEAN :
        /\ bibliography' = bib
        /\ result_callback' = cb
        /\ total_references' = Len(bib)
        /\ work_queue' = work_queue \o PopulatedQueue(Len(bib), max_workers)
        /\ dequeued' = [i \in 0..(Len(bib) - 1) |-> <<>>]
        /\ verify_calls' = [i \in 0..(Len(bib) - 1) |-> 0]
        /\ produced' = [i \in 0..(Len(bib) - 1) |-> <<>>]
    /\ next_print_index' = 0
    /\ completed_count' = 0
    /\ result_buffer' = <<>>
    /\ ppc' = "loop"
    /\ wpc' = [w \in Workers |-> "get"]
    /\ mpc' = "wait_workers"
    /\ UNCHANGED <<max_workers, result_queue, processing_stats, work_item,
                   delivered, error_log, cvars, dvars, kvars, uvars, mvars, tvars>>

\* Leaving the ThreadPoolExecutor block: every worker future has completed.
WorkersJoined ==
    /\ mpc = "wait_workers"
    /\ \A w \in Workers : wpc[w] = "exit"
    /\ mpc' = "join_printer"
    /\ UNCHANGED <<bibliography, result_callback, max_workers, work_queue,
                   result_queue, result_buffer, next_print_index, total_references,
                   completed_count, processing_stats, wpc, work_item, ppc,
                   delivered, dequeued, verify_calls, produced,
                   error_log, cvars, dvars, kvars, uvars, mvars, tvars>>

\* A return that does not wait for the printer thread.
ReturnWithoutJoin ==
    /\ mpc = "join_printer"
    /\ mpc' = "returned"
    /\ UNCHANGED <<bibliography, result_callback, max_workers, work_queue,
                   result_queue, result_buffer, next_print_index, total_references,
                   completed_count, processing_stats, wpc, work_item, ppc,
                   delivered, dequeued, verify_calls, produced,
                   error_log, cvars, dvars, kvars, uvars, mvars, tvars>>


\* printer_thread.join() returns and the statistics are returned.
Return ==
    /\ mpc = "join_printer"
    /\ ppc = "finished"
    /\ mpc' = "returned"
    /\ UNCHANGED <<bibliography, result_callback, max_workers, work_queue,
                   result_queue, result_buffer, next_print_index, total_references,
                   completed_count, processing_stats, wpc, work_item, ppc,
                   delivered, dequeued, verify_calls, produced,
                   error_log, cvars, dvars, kvars, uvars, mvars, tvars>>

(* ----------------------------- _worker_loop ----------------------------- *)

\* A worker loop that reads the head of the work queue without removing it.
WorkerPeeksItem(w) ==
    /\ wpc[w] = "get"
    /\ work_queue # <<>>
    /\ Head(work_queue) # Sentinel
    /\ work_item' = [work_item EXCEPT ![w] = Head(work_queue)]
    /\ wpc' = [wpc EXCEPT ![w] = "verify"]
    /\ dequeued' = [dequeued EXCEPT ![Head(work_queue).index] = Append(@, w)]
    /\ UNCHANGED <<bibliography, result_callback, max_workers, work_queue,
                   result_queue, result_buffer, next_print_index, total_references,
                   completed_count, processing_stats, mpc, ppc, delivered,
                   verify_calls, produced, error_log, cvars, dvars, kvars, uvars, mvars, tvars>>

\* work_queue.get(block=True) returning a work item.
WorkerGetItem(w) ==
    /\ wpc[w] = "get"
    /\ work_queue # <<>>
    /\ Head(work_queue) # Sentinel
    /\ work_item' = [work_item EXCEPT ![w] = Head(work_queue)]
    /\ work_queue' = Tail(work_queue)
    /\ wpc' = [wpc EXCEPT ![w] = "verify"]
    /\ dequeued' = [dequeued EXCEPT ![Head(work_queue).index] = Append(@, w)]
    /\ UNCHANGED <<bibliography, result_callback, max_workers, result_queue,
                   result_buffer, next_print_index, total_references,
                   completed_count, processing_stats, mpc, ppc, delivered,
                   verify_calls, produced,
                   error_log, cvars, dvars, kvars, uvars, mvars, tvars>>

\* A worker loop that exits on seeing the sentinel at the head of the queue
\* and leaves it there.
WorkerSeesSentinel(w) ==
    /\ wpc[w] = "get"
    /\ work_queue # <<>>
    /\ Head(work_queue) = Sentinel
    /\ wpc' = [wpc EXCEPT ![w] = "exit"]
    /\ UNCHANGED <<bibliography, result_callback, max_workers, work_queue, result_queue,
                   result_buffer, next_print_index, total_references,
                   completed_count, processing_stats, mpc, work_item, ppc,
                   delivered, dequeued, verify_calls, produced,
                   error_log, cvars, dvars, kvars, uvars, mvars, tvars>>


\* work_queue.get(block=True) returning the sentinel: task_done and break.
WorkerGetSentinel(w) ==
    /\ wpc[w] = "get"
    /\ work_queue # <<>>
    /\ Head(work_queue) = Sentinel
    /\ work_queue' = Tail(work_queue)
    /\ wpc' = [wpc EXCEPT ![w] = "exit"]
    /\ UNCHANGED <<bibliography, result_callback, max_workers, result_queue,
                   result_buffer, next_print_index, total_references,
                   completed_count, processing_stats, mpc, work_item, ppc,
                   delivered, dequeued, verify_calls, produced,
                   error_log, cvars, dvars, kvars, uvars, mvars, tvars>>

\* base_checker.verify_reference returns: the result is put on result_queue.
WorkerVerifyReturns(w) ==
    /\ wpc[w] = "verify"
    /\ Ref(work_item[w].index).behaviour # "raises"
    /\ LET i == work_item[w].index
           result == ReferenceResult(i, VerifyReferenceReturn(Ref(i)))
       IN /\ result_queue' = Append(result_queue, result)
          /\ produced' = [produced EXCEPT ![i] = Append(@, result)]
          /\ verify_calls' = [verify_calls EXCEPT ![i] = @ + 1]
    /\ wpc' = [wpc EXCEPT ![w] = "get"]
    /\ UNCHANGED <<bibliography, result_callback, max_workers, work_queue,
                   result_buffer, next_print_index, total_references,
                   completed_count, processing_stats, mpc, work_item, ppc,
                   delivered, dequeued,
                   error_log, cvars, dvars, kvars, uvars, mvars, tvars>>

\* A worker loop without the inner except branch: the exception leaves the
\* loop through the outer handler and no result is put for the work item.
WorkerVerifyPropagates(w) ==
    /\ wpc[w] = "verify"
    /\ Ref(work_item[w].index).behaviour = "raises"
    /\ verify_calls' = [verify_calls EXCEPT ![work_item[w].index] = @ + 1]
    /\ error_log' = error_log \cup {<<"worker_error", work_item[w].index>>}
    /\ wpc' = [wpc EXCEPT ![w] = "exit"]
    /\ UNCHANGED <<bibliography, result_callback, max_workers, work_queue,
                   result_queue, result_buffer, next_print_index, total_references,
                   completed_count, processing_stats, mpc, work_item, ppc,
                   delivered, dequeued, produced, cvars, dvars, kvars, uvars, mvars, tvars>>

\* base_checker.verify_reference raises an Exception: the except branch puts
\* the processing_failed result on result_queue.
WorkerVerifyRaises(w) ==
    /\ wpc[w] = "verify"
    /\ Ref(work_item[w].index).behaviour = "raises"
    /\ LET i == work_item[w].index
       IN /\ result_queue' = Append(result_queue, ErrorResult(i))
          /\ produced' = [produced EXCEPT ![i] = Append(@, ErrorResult(i))]
          /\ verify_calls' = [verify_calls EXCEPT ![i] = @ + 1]
          /\ error_log' = error_log \cup {<<"worker_failed", i>>}
    /\ wpc' = [wpc EXCEPT ![w] = "get"]
    /\ UNCHANGED <<bibliography, result_callback, max_workers, work_queue,
                   result_buffer, next_print_index, total_references,
                   completed_count, processing_stats, mpc, work_item, ppc,
                   delivered, dequeued, cvars, dvars, kvars, uvars, mvars, tvars>>

(* ------------------------ _ordered_result_printer ----------------------- *)

\* result_queue.get(block=True), then the result is stored in the buffer and
\* the statistics are updated (first critical section).
PrinterGet ==
    /\ ppc = "loop"
    /\ next_print_index < total_references
    /\ result_queue # <<>>
    /\ LET result == Head(result_queue)
       IN /\ result_buffer' = With(result_buffer, result.index, result)
          /\ processing_stats' = UpdateStats(processing_stats, result)
    /\ result_queue' = Tail(result_queue)
    /\ ppc' = "flush"
    /\ UNCHANGED <<bibliography, result_callback, max_workers, work_queue,
                   next_print_index, total_references, completed_count, mpc,
                   wpc, work_item, delivered, dequeued, verify_calls, produced,
                   error_log, cvars, dvars, kvars, uvars, mvars, tvars>>

\* An inner loop iteration that advances without deleting the buffer entry.
AdvanceKeepsEntry ==
    /\ delivered' = IF result_callback
                    THEN Append(delivered, result_buffer[next_print_index])
                    ELSE delivered
    /\ result_buffer' = result_buffer
    /\ next_print_index' = next_print_index + 1
    /\ completed_count' = completed_count + 1


\* The effect of one completed iteration of the inner while loop: the
\* callback, if any, was invoked with the buffered result, which is then
\* removed from the buffer, and the cursor advances.
Advance ==
    /\ delivered' = IF result_callback
                    THEN Append(delivered, result_buffer[next_print_index])
                    ELSE delivered
    /\ result_buffer' = Without(result_buffer, next_print_index)
    /\ next_print_index' = next_print_index + 1
    /\ completed_count' = completed_count + 1

\* One iteration of the inner while loop: the buffered result with the next
\* expected index is printed and, when a callback was passed, handed to it;
\* the callback returns normally.
PrinterEmit ==
    /\ ppc = "flush"
    /\ next_print_index \in DOMAIN result_buffer
    /\ Ref(next_print_index).printable
    /\ Advance
    /\ UNCHANGED <<bibliography, result_callback, max_workers, work_queue,
                   result_queue, total_references, processing_stats, mpc, wpc,
                   work_item, ppc, dequeued, verify_calls, produced, error_log, cvars, dvars, kvars, uvars, mvars, tvars>>

\* One iteration of the inner while loop in which result_callback raises:
\* the inner except logs "Result callback failed" and the iteration goes on.
PrinterEmitCallbackRaises ==
    /\ ppc = "flush"
    /\ next_print_index \in DOMAIN result_buffer
    /\ Ref(next_print_index).printable
    /\ result_callback
    /\ Advance
    /\ error_log' = error_log \cup {<<"callback_failed", next_print_index>>}
    /\ UNCHANGED <<bibliography, result_callback, max_workers, work_queue,
                   result_queue, total_references, processing_stats, mpc, wpc,
                   work_item, ppc, dequeued, verify_calls, produced, cvars, dvars, kvars, uvars, mvars, tvars>>

\* _print_reference_result raises inside the inner loop: the outer except
\* logs "Result printer error" and continues with the outer loop.
PrinterPrintRaises ==
    /\ ppc = "flush"
    /\ next_print_index \in DOMAIN result_buffer
    /\ ~Ref(next_print_index).printable
    /\ ppc' = "loop"
    /\ error_log' = error_log \cup {<<"printer_error", next_print_index>>}
    /\ UNCHANGED <<bibliography, result_callback, max_workers, work_queue,
                   result_queue, result_buffer, next_print_index, total_references,
                   completed_count, processing_stats, mpc, wpc, work_item,
                   delivered, dequeued, verify_calls, produced, cvars, dvars, kvars, uvars, mvars, tvars>>

\* The inner loop ends: the next expected index is not in the buffer.
PrinterFlushed ==
    /\ ppc = "flush"
    /\ next_print_index \notin DOMAIN result_buffer
    /\ ppc' = "loop"
    /\ UNCHANGED <<bibliography, result_callback, max_workers, work_queue,
                   result_queue, result_buffer, next_print_index, total_references,
                   completed_count, processing_stats, mpc, wpc, work_item,
                   delivered, dequeued, verify_calls, produced,
                   error_log, cvars, dvars, kvars, uvars, mvars, tvars>>

\* The outer loop condition fails: "Result printer finished".
PrinterFinish ==
    /\ ppc = "loop"
    /\ next_print_index >= total_references
    /\ ppc' = "finished"
    /\ UNCHANGED <<bibliography, result_callback, max_workers, work_queue,
                   result_queue, result_buffer, next_print_index, total_references,
                   completed_count, processing_stats, mpc, wpc, work_item,
                   delivered, dequeued, verify_calls, produced,
                   error_log, cvars, dvars, kvars, uvars, mvars, tvars>>

(* ------------------------------- Spec ----------------------------------- *)

Next ==
    \/ CallEmpty
    \/ Call
    \/ WorkersJoined
    \/ Return
    \/ \E w \in Workers : WorkerGetItem(w)
    \/ \E w \in Workers : WorkerGetSentinel(w)
    \/ \E w \in Workers : WorkerVerifyReturns(w)
    \/ \E w \in Workers : WorkerVerifyRaises(w)
    \/ PrinterGet
    \/ PrinterEmit
    \/ PrinterEmitCallbackRaises
    \/ PrinterPrintRaises
    \/ PrinterFlushed
    \/ PrinterFinish

Spec == Init /\ [][Next]_vars

\* Properties of Spec.

\* No thread of the batch can take a step.
Stopped == ~ENABLED Next

\* Every worker has left _worker_loop.
WorkersExited == mpc # "idle" /\ \A w \in Workers : wpc[w] = "exit"

\* The result the worker builds for index i from what verify_reference does.
ExpectedResult(i) ==
    IF Ref(i).behaviour = "raises"
    THEN ErrorResult(i)
    ELSE ReferenceResult(i, VerifyReferenceReturn(Ref(i)))

\* The results put on the result queue so far, over all indices.
RECURSIVE ProducedUpTo(_)
ProducedUpTo(n) == IF n = 0 THEN 0 ELSE Len(produced[n - 1]) + ProducedUpTo(n - 1)

\* C1: for every bibliography of size N >= 1, every worker count and every
\* interleaving, result_callback is invoked exactly N times and its k-th
\* invocation receives the result with index k: the invocations made so far
\* are always for the indices 0, 1, 2, ... in this order, and when the batch
\* has stopped there are N of them.
C1_CallbackOncePerIndexInOrder ==
    /\ \A k \in 1..Len(delivered) : delivered[k].index = k - 1
    /\ (result_callback /\ Stopped) => Len(delivered) = N

\* C2: a batch runs to completion: no reachable state is a deadlock, that
\* is, in every state either verify_references_parallel has returned or some
\* thread can take a step.
C2_BatchRunsToCompletion == mpc = "returned" \/ ENABLED Next

\* C3: the workers put exactly one result on the result queue per dequeued
\* work item, the normal one or the processing_failed one, with the item's
\* index: an index whose item a worker has finished has exactly one result,
\* every other index has none, the results on the result queue, in the buffer
\* and already emitted are exactly those, and when all workers have exited
\* there are N results, one per index in [0, N).
C3_OneResultPerWorkItem ==
    /\ \A i \in DOMAIN produced :
        LET held == \E w \in Workers : wpc[w] = "verify" /\ work_item[w].index = i
            finished == dequeued[i] # <<>> /\ ~held
        IN /\ Len(produced[i]) = IF finished THEN 1 ELSE 0
           /\ finished => produced[i][1] = ExpectedResult(i)
    /\ Len(result_queue) + Cardinality(DOMAIN result_buffer) + next_print_index
         = ProducedUpTo(N)
    /\ \A j, k \in 1..Len(result_queue) :
         result_queue[j].index = result_queue[k].index => j = k
    /\ WorkersExited => \A i \in 0..(N - 1) : Len(produced[i]) = 1

\* C3 witness: a batch of two references, one raising and one verified, whose
\* workers have all exited.
C3_Witness ==
    /\ WorkersExited
    /\ N = 2
    /\ produced[0] = <<ErrorResult(0)>>
    /\ produced[1] = <<ReferenceResult(1, VerifyReferenceReturn(Ref(1)))>>
    /\ Ref(1).behaviour = "verified"

\* C4: if verify_reference raises for citation i, the worker emits exactly
\* one result for i, the processing_failed one without url, and keeps
\* pulling; the batch completes and every other index is delivered with the
\* result verify_reference returned for it.
C4_InternalFaultContained ==
    \A i \in 0..(N - 1) :
        Ref(i).behaviour = "raises" =>
            /\ Len(produced[i]) <= 1
            /\ produced[i] # <<>> =>
                 /\ produced[i][1].errors = <<"processing_failed">>
                 /\ produced[i][1].url = None
            /\ Stopped =>
                 /\ WorkersExited
                 /\ mpc = "returned"
                 /\ produced[i] = <<ErrorResult(i)>>
                 /\ result_callback =>
                      \A j \in 0..(N - 1) :
                          /\ Len(delivered) > j
                          /\ delivered[j + 1] = ExpectedResult(j)

\* C5: if result_callback raises for the result with index k, the failure
\* is logged and skipped: the cursor has advanced past k, the callback is
\* still invoked for k+1..N-1 in order, and the batch returns.
C5_CallbackFaultSkipped ==
    \A k \in 0..(N - 1) :
        <<"callback_failed", k>> \in error_log =>
            /\ next_print_index >= k + 1
            /\ \A j \in 1..Len(delivered) : delivered[j].index = j - 1
            /\ Stopped => (mpc = "returned" /\ Len(delivered) = N)

\* C8: every work item is dequeued exactly once and by one worker, and
\* verify_reference is invoked exactly once per index: never twice in any
\* state, an index is still on the work queue exactly when no worker has
\* dequeued it, and once the workers have exited, as they have whenever the
\* batch has stopped, every index was dequeued and verified once.
C8_EachItemDequeuedOnce ==
    /\ \A i \in DOMAIN dequeued :
        /\ Len(dequeued[i]) <= 1
        /\ verify_calls[i] <= Len(dequeued[i])
        /\ (dequeued[i] = <<>>) <=> (ReferenceWorkItem(i) \in Range(work_queue))
    /\ WorkersExited =>
         \A i \in 0..(N - 1) : Len(dequeued[i]) = 1 /\ verify_calls[i] = 1
    /\ (Stopped /\ N > 0) => WorkersExited

\* C8 witness: two workers have exited after each dequeued one of two items.
C8_Witness ==
    /\ WorkersExited
    /\ N = 2
    /\ dequeued[0] = <<0>>
    /\ dequeued[1] = <<1>>
    /\ verify_calls[0] = 1 /\ verify_calls[1] = 1

\* C22: statistics are updated on flush: in every state of a batch the
\* processed count equals the number of results flushed in order so far
\* (next_print_index), so a result that was received ahead of turn and is
\* still in the buffer is not counted.
C22_StatsUpdatedOnFlush ==
    /\ processing_stats.total_processed = next_print_index
    /\ \A i \in DOMAIN result_buffer :
          i > next_print_index => processing_stats.total_processed <= next_print_index

\* C25: a fault in the emission step does not stall the batch: when printing
\* the buffered result with index k has raised, the batch does not come to
\* rest before the ordering thread has advanced past k, delivered the
\* remaining results and finished, and verify_references_parallel has
\* returned.
C25_PrintFaultDoesNotStall ==
    \A k \in 0..(N - 1) :
        (<<"printer_error", k>> \in error_log /\ Stopped) =>
            /\ next_print_index > k
            /\ next_print_index = N
            /\ result_queue = <<>>
            /\ ppc = "finished"
            /\ mpc = "returned"


\* The state part of the ordering buffer invariant.
OrderingBufferInvariant ==
    /\ next_print_index \in 0..N
    /\ completed_count = next_print_index
    /\ \A i \in DOMAIN result_buffer : next_print_index <= i /\ i < N
    /\ ppc = "finished" => (next_print_index = N /\ result_buffer = <<>>)

\* The step part: the cursor moves only by one, and only in a step that
\* removes the result with the cursor's index from the buffer and emits it.
OrderingBufferStep ==
    next_print_index' # next_print_index =>
        /\ next_print_index' = next_print_index + 1
        /\ next_print_index \in DOMAIN result_buffer
        /\ Ref(next_print_index).printable
        /\ result_buffer' = Without(result_buffer, next_print_index)
        /\ result_callback =>
              delivered' = Append(delivered, result_buffer[next_print_index])

\* C26: ordering buffer invariant: in every state of a batch next_print_index
\* is in [0, N], completed_count equals it, every index held in the buffer is
\* >= next_print_index and < N, and when the ordering thread has terminated
\* next_print_index = N and the buffer is empty; next_print_index changes
\* only by increments of exactly 1 and only when the result with that index
\* is removed from the buffer and emitted.
C26_OrderingBufferInvariant ==
    /\ []OrderingBufferInvariant
    /\ [][OrderingBufferStep]_vars

\* C26 witness: the ordering thread has terminated after emitting, in order,
\* the results of two references that two workers had split.
C26_Witness ==
    /\ ppc = "finished"
    /\ N = 2
    /\ next_print_index = 2
    /\ result_buffer = <<>>
    /\ Len(delivered) = 2
    /\ \E w \in Workers : dequeued[1] = <<w>> /\ dequeued[0] # <<w>>


\* The sentinels consumed so far.
SentinelsDequeued == Cardinality({w \in Workers : wpc[w] = "exit"})

\* C27: work items leave the shared queue in ascending index order, and no
\* sentinel is dequeued before all N work items have been dequeued, so no
\* worker exits while a work item is still waiting in the queue: the indices
\* dequeued so far are an initial segment 0..k-1, the queue holds the
\* remaining indices in ascending order followed only by sentinels, and once
\* a sentinel was consumed every index was dequeued.
C27_WorkItemsInOrder ==
    /\ \A i, j \in DOMAIN dequeued : (i < j /\ dequeued[j] # <<>>) => dequeued[i] # <<>>
    /\ \A k \in 1..(Len(work_queue) - 1) :
          /\ work_queue[k] = Sentinel => work_queue[k + 1] = Sentinel
          /\ work_queue[k + 1] # Sentinel => work_queue[k + 1].index = work_queue[k].index + 1
    /\ SentinelsDequeued > 0 =>
          /\ \A i \in 0..(N - 1) : dequeued[i] # <<>>
          /\ \A k \in 1..Len(work_queue) : work_queue[k] = Sentinel

\* C27 witness: one worker has consumed its sentinel and exited while the
\* other still verifies the last of two work items.
C27_Witness ==
    /\ N = 2
    /\ \E w, v \in Workers :
          /\ wpc[w] = "exit"
          /\ wpc[v] = "verify" /\ work_item[v].index = 1
    /\ dequeued[0] # <<>>


\* The sentinels on the work queue.
SentinelsQueued == Cardinality({k \in 1..Len(work_queue) : work_queue[k] = Sentinel})

\* Once the workers are started there is one sentinel per worker that has
\* not exited; when all have exited the work queue is empty.
OneSentinelPerWorker ==
    /\ (\E w \in Workers : wpc[w] # "unstarted") =>
          SentinelsQueued + SentinelsDequeued = max_workers
    /\ WorkersExited => work_queue = <<>>

\* A worker exits only in the step in which it takes a sentinel off the head
\* of the work queue, and takes nothing off the queue afterwards.
ExitOnSentinel ==
    \A w \in Workers :
        /\ (wpc[w] # "exit" /\ wpc'[w] = "exit") =>
              /\ wpc[w] = "get"
              /\ work_queue # <<>>
              /\ Head(work_queue) = Sentinel
              /\ work_queue' = Tail(work_queue)
        /\ wpc[w] = "exit" =>
              /\ wpc'[w] = "exit"
              /\ work_item'[w] = work_item[w]

\* C28: each of the W workers consumes exactly one sentinel and exits on
\* consuming it, never two and never exits without one, so when all workers
\* have exited the work queue holds neither work items nor sentinels.
C28_OneSentinelPerWorker ==
    /\ []OneSentinelPerWorker
    /\ [][ExitOnSentinel]_vars

\* C28 witness: two workers have exited after a batch of two references and
\* the work queue is empty.
C28_Witness ==
    /\ max_workers = 2
    /\ N = 2
    /\ WorkersExited
    /\ work_queue = <<>>
    /\ SentinelsDequeued = 2


\* C29: verify_references_parallel returns only after every one of the W
\* workers has exited and after the ordering thread has finished: it waits
\* for the printer only once the workers are done, and when it has returned
\* from a batch of N >= 1 references all workers have exited, the ordering
\* thread has finished, all N results have been emitted (next_print_index =
\* N, each handed to the callback when there is one) and the result queue
\* and the buffer are empty.
C29_ReturnsAfterJoin ==
    /\ mpc = "join_printer" => WorkersExited
    /\ mpc = "returned" =>
          /\ N > 0 => (WorkersExited /\ ppc = "finished")
          /\ next_print_index = N
          /\ result_callback => Len(delivered) = N
          /\ result_queue = <<>>
          /\ result_buffer = <<>>

\* C29 witness: a batch of two references run by two workers has returned.
C29_Witness ==
    /\ mpc = "returned"
    /\ N = 2
    /\ max_workers = 2
    /\ ppc = "finished"
    /\ Len(delivered) = 2


\* C30: a worker blocked inside verify_reference for index i does not block
\* the others: every other worker can still take its next queue entry or
\* finish its own verification, nothing with an index >= i is emitted while
\* result i is outstanding (later results wait in the buffer), and a flush
\* emits the whole contiguous run: when the ordering thread goes back to
\* waiting for results, the result with the next expected index is not in
\* the buffer.
C30_BlockedWorkerDoesNotBlock ==
    /\ \A w \in Workers :
          wpc[w] = "verify" =>
              LET i == work_item[w].index
              IN /\ next_print_index <= i
                 /\ \A k \in 1..Len(delivered) : delivered[k].index < i
                 /\ \A v \in Workers \ {w} :
                       /\ (wpc[v] = "get" /\ work_queue # <<>>) =>
                             ENABLED (WorkerGetItem(v) \/ WorkerGetSentinel(v))
                       /\ wpc[v] = "verify" =>
                             ENABLED (WorkerVerifyReturns(v) \/ WorkerVerifyRaises(v))
    /\ ppc = "loop" => next_print_index \notin DOMAIN result_buffer


(* ----------------------------- SpecBatches ------------------------------ *)

\* verify_references_parallel has returned and the caller is about to call
\* it again on the same processor instance: the threads of the finished batch
\* are gone, the attributes of the instance keep their values.  The batches
\* end once more than MaxRefs results were processed on the instance.
NextBatch ==
    /\ mpc = "returned"
    /\ processing_stats.total_processed <= MaxRefs
    /\ mpc' = "idle"
    /\ bibliography' = <<>>
    /\ result_callback' = FALSE
    /\ wpc' = [w \in Workers |-> "unstarted"]
    /\ work_item' = [w \in Workers |-> Sentinel]
    /\ ppc' = "unstarted"
    /\ delivered' = <<>>
    /\ dequeued' = <<>>
    /\ verify_calls' = <<>>
    /\ produced' = <<>>
    /\ error_log' = {}
    /\ UNCHANGED <<max_workers, work_queue, result_queue, result_buffer,
                   next_print_index, total_references, completed_count,
                   processing_stats, cvars, dvars, kvars, uvars, mvars, tvars>>

BatchesNext ==
    \/ Next
    \/ NextBatch

\* One processor instance that runs batch after batch.
SpecBatches == Init /\ [][BatchesNext]_vars

\* Properties of SpecBatches.

\* The findings of the results put on the result queue for the indices below n.
RECURSIVE FindingsUpTo(_)
FindingsUpTo(n) ==
    IF n = 0 THEN 0
    ELSE FindingsUpTo(n - 1)
         + (IF produced[n - 1] = <<>> THEN 0 ELSE Len(produced[n - 1][1].errors))

\* _get_stats: the counts of the dictionary verify_references_parallel returns.
GetStats ==
    [total_references |-> total_references,
     total_errors     |-> processing_stats.total_errors]

\* C23: the statistics verify_references_parallel returns describe that
\* batch: total_references is N and total_errors is the sum of the lengths of
\* the finding lists of the batch's N results, also when the instance has run
\* an earlier batch.
C23_StatsDescribeBatch ==
    mpc = "returned" =>
        /\ GetStats.total_references = N
        /\ GetStats.total_errors = FindingsUpTo(N)



\* The results processed on the instance by batches that returned before the
\* current call: _update_stats counts every result the ordering thread
\* receives, and those of the current batch are flushed or in the buffer.
EarlierResults ==
    processing_stats.total_processed
      - (next_print_index + Cardinality(DOMAIN result_buffer))

\* C38: a processor instance can be reused: whenever a call has returned the
\* work queue, the result queue and the buffer are empty, and a later call
\* on the instance with M citations delivers exactly the indices 0..M-1 in
\* order, each once and each with the result of its own citation: what was
\* delivered so far is always the results of the indices 0, 1, 2, ... of the
\* current bibliography, and when the batch has come to rest all M are
\* delivered and the call has returned.
C38_InstanceReusable ==
    /\ mpc = "returned" =>
         /\ work_queue = <<>>
         /\ result_queue = <<>>
         /\ result_buffer = <<>>
    /\ EarlierResults > 0 =>
         /\ \A k \in 1..Len(delivered) : delivered[k] = ExpectedResult(k - 1)
         /\ (mpc # "idle" /\ ~ENABLED Next) =>
              /\ mpc = "returned"
              /\ result_callback => Len(delivered) = N



\* One processor instance with a single worker that runs batch after batch.
ReuseInit == Init /\ max_workers = 1

SpecReuse == ReuseInit /\ [][BatchesNext]_vars

\* A call with an empty bibliography has returned: no queue entry, no
\* thread, no callback invocation.
EmptyCallReturned ==
    (mpc = "returned" /\ N = 0) =>
        /\ work_queue = <<>>
        /\ result_queue = <<>>
        /\ \A w \in Workers : wpc[w] = "unstarted"
        /\ ppc = "unstarted"
        /\ delivered = <<>>

\* The step of a call with an empty bibliography: from the call to the
\* return nothing of the instance changes.
EmptyCallStep ==
    (mpc = "idle" /\ mpc' = "returned") =>
        /\ N = 0
        /\ UNCHANGED <<work_queue, result_queue, result_buffer, next_print_index,
                       completed_count, total_references, processing_stats,
                       wpc, ppc, delivered>>

\* C39: called with an empty bibliography, verify_references_parallel
\* returns at once and changes nothing: nothing is put on a queue, no worker
\* or ordering thread is started, result_callback is not invoked, and
\* next_print_index, completed_count, total_references, the buffer and
\* processing_stats keep the values the earlier batches left.
C39_EmptyBibliographyNoChange == []EmptyCallReturned /\ [][EmptyCallStep]_vars

\* A call with an empty bibliography returned on an instance that had
\* processed a batch before, whose counters are still there.
C39_Witness ==
    /\ mpc = "returned"
    /\ N = 0
    /\ total_references > 0
    /\ next_print_index = total_references
    /\ completed_count = total_references
    /\ processing_stats.total_processed = total_references

(* ----------------------------- SpecClient ------------------------------- *)

\* Every sequence of responses a server can give the attempts of one call.
ClientScripts == [1..max_retries -> Responses]

\* A checker instance and a server about to answer one client call.
ClientInit ==
    /\ ProcessorInit
    /\ CheckerInit
    /\ Agreeing
    /\ calls_left = 0
    /\ client_script \in ClientScripts
    /\ client_call = NoCall
    /\ UrlIdle
    /\ MatchIdle
    /\ TimingIdle

\* search_paper is called and returns; the flag is set when it gave up.
CallSearchPaper ==
    /\ client_call = NoCall
    /\ client_script \in ClientScripts
    /\ LET made == SearchPaper(client_script)
       IN /\ client_call' = [method |-> "search_paper", data |-> made.data,
                             failed |-> made.failed, requests |-> made.requests,
                             waits |-> made.waits]
          /\ api_failed' = (api_failed \/ made.failed)
          /\ failure_reason' = IF made.failed THEN "rate_limited_or_timeout"
                                ELSE failure_reason
    /\ UNCHANGED <<vpc, reference, paper_data, verdict, own_exhausted, definite,
                   attempts_ok, calls_left, client_script, pvars, lvars, dvars, uvars, mvars, tvars>>

\* get_paper_by_doi is called and returns; the flag is set when it gave up.
CallGetPaperByDoi ==
    /\ client_call = NoCall
    /\ client_script \in ClientScripts
    /\ LET made == GetPaperByDoi(client_script)
       IN /\ client_call' = [method |-> "get_paper_by_doi", data |-> made.data,
                             failed |-> made.failed, requests |-> made.requests,
                             waits |-> made.waits]
          /\ api_failed' = (api_failed \/ made.failed)
          /\ failure_reason' = IF made.failed THEN "rate_limited_or_timeout"
                                ELSE failure_reason
    /\ UNCHANGED <<vpc, reference, paper_data, verdict, own_exhausted, definite,
                   attempts_ok, calls_left, client_script, pvars, lvars, dvars, uvars, mvars, tvars>>

ClientNext ==
    \/ CallSearchPaper
    \/ CallGetPaperByDoi

SpecClient == ClientInit /\ [][ClientNext]_vars

\* Properties of SpecClient.

\* The attempt at which the server first answers 404 after nothing but
\* transient failures (rate limits, request exceptions); 0 when there is none.
FirstNotFound(responses) ==
    LET hits == {p \in 1..max_retries :
                   /\ responses[p] = "404"
                   /\ \A q \in 1..(p - 1) : responses[q] \in {"429", "exception"}}
    IN IF hits = {} THEN 0 ELSE CHOOSE p \in hits : TRUE

\* C11: for every client call, lookup by DOI and search alike, a 404
\* short-circuits: the call that meets a 404 at attempt p after transient
\* failures makes exactly p requests, waits only for the p - 1 failures
\* before it, and returns without the failure flag set.
C11_NotFoundShortCircuits ==
    (client_call # NoCall /\ FirstNotFound(client_script) # 0) =>
        /\ client_call.requests = FirstNotFound(client_script)
        /\ Len(client_call.waits) = FirstNotFound(client_script) - 1
        /\ ~client_call.failed
        /\ ~api_failed


\* The attempt (1-based) at which the server first answers 200; 0 when it
\* never does within max_retries attempts.
FirstSuccess(responses) ==
    LET hits == {p \in 1..max_retries :
                   /\ responses[p] \in {"200:paper"} \cup SearchBodies
                   /\ \A q \in 1..(p - 1) : responses[q] \notin {"200:paper"} \cup SearchBodies}
    IN IF hits = {} THEN 0 ELSE CHOOSE p \in hits : TRUE

\* The servers answered nothing but 200, 429 and request exceptions.
OnlySuccessOrTransient(responses) ==
    \A p \in 1..max_retries : responses[p] # "404"

\* What a call returns when it has nothing: [] from search_paper, None from
\* get_paper_by_doi.
EmptyResult(method) == IF method = "search_paper" THEN "200:empty" ELSE None

\* C31: each client call makes at most max_retries requests; when the
\* servers answer only successes and transient failures, the call whose
\* first success comes at attempt p makes exactly p requests and returns
\* without the failure flag, and the call that meets max_retries transient
\* failures in a row makes max_retries requests, sets the failure flag and
\* returns the empty result; the flag is set in no other case.
C31_BoundedRetries ==
    client_call # NoCall =>
        /\ client_call.requests <= max_retries
        /\ OnlySuccessOrTransient(client_script) =>
             IF FirstSuccess(client_script) # 0
             THEN /\ client_call.requests = FirstSuccess(client_script)
                  /\ ~client_call.failed
                  /\ ~api_failed
             ELSE /\ client_call.requests = max_retries
                  /\ client_call.failed
                  /\ api_failed
                  /\ failure_reason = "rate_limited_or_timeout"
                  /\ client_call.data = EmptyResult(client_call.method)

\* A search_paper call gave up after five requests that met rate limits and
\* request exceptions both.
C31_Witness ==
    /\ client_call # NoCall
    /\ client_call.method = "search_paper"
    /\ client_script = <<"429", "exception", "429", "exception", "429">>
    /\ client_call.requests = max_retries
    /\ client_call.failed
    /\ api_failed

\* The waits a call made are request_delay * backoff_factor ^ k for the
\* attempts k = 0, 1, ... in turn.
BackoffWaits(waits) ==
    \A j \in 1..Len(waits) : waits[j] = request_delay * backoff_factor ^ (j - 1)

\* Each wait of a call is longer than the one before.
StrictlyIncreasing(waits) ==
    \A j \in 1..(Len(waits) - 1) : waits[j] < waits[j + 1]

\* C32: the wait after a failure at attempt k is request_delay *
\* backoff_factor ^ k (1, 2, 4, 8, 16 with the defaults), the waits of one
\* call are strictly increasing, and they are the same whatever the kind of
\* each failure, since they hold for every script of responses.
C32_ExponentialBackoff ==
    client_call # NoCall =>
        /\ BackoffWaits(client_call.waits)
        /\ StrictlyIncreasing(client_call.waits)
        /\ client_call.failed => client_call.waits = <<1, 2, 4, 8, 16>>

\* A call that met a rate limit, then exceptions and rate limits in turn,
\* waited 1, 2, 4, 8 and 16 seconds.
C32_Witness ==
    /\ client_call # NoCall
    /\ client_script = <<"429", "exception", "exception", "429", "exception">>
    /\ client_call.waits = <<1, 2, 4, 8, 16>>

(* ---------------------------- SpecChecker ------------------------------- *)

\* One checker instance behind base_checker and the workers of a processor
\* that call verify_reference on it, MaxCalls times in all.
CheckerSpecInit ==
    /\ ProcessorInit
    /\ CheckerInit
    /\ ClientIdle
    /\ UrlIdle
    /\ MatchIdle
    /\ TimingIdle
    /\ Agreeing
    /\ calls_left = MaxCalls

CheckerNext ==
    \/ \E t \in Workers : VerifyReference(t)
    \/ \E t \in Workers : ResetReason(t)
    \/ \E t \in Workers : SetReason(t)
    \/ \E t \in Workers : DoiSkipped(t)
    \/ \E t \in Workers : DoiLookup(t)
    \/ \E t \in Workers : TitleSkipped(t)
    \/ \E t \in Workers : TitleSearch(t)
    \/ \E t \in Workers : ArxivSkipped(t)
    \/ \E t \in Workers : ArxivSearch(t)
    \/ \E t \in Workers : ArxivApi(t)
    \/ \E t \in Workers : RawSkipped(t)
    \/ \E t \in Workers : RawSearch(t)
    \/ \E t \in Workers : RawSearchRaises(t)
    \/ \E t \in Workers : ReturnFound(t)
    \/ \E t \in Workers : ReturnNotFound(t)
    \/ \E t \in Workers : CheckFailed(t)
    \/ \E t \in Workers : ReturnApiFailure(t)

SpecChecker == CheckerSpecInit /\ [][CheckerNext]_vars

\* Properties of SpecChecker.

\* Caller t's verify_reference call has returned a verdict.
HasReturned(t) == vpc[t] = "returned"

\* The verdict carries an api_failure finding.
HasApiFailure(v) ==
    \E k \in 1..Len(v.errors) : v.errors[k] \in {ApiFailureVerdict(None).errors[1],
                                                 ApiFailureVerdict("rate_limited_or_timeout").errors[1]}

\* What verify_reference returns when no other call runs on the instance
\* during it, from the paper it found and the fate of its own client calls.
SequentialVerdict(t) ==
    IF paper_data[t] # None THEN FoundVerdict(t)
    ELSE IF own_exhausted[t] THEN ApiFailureVerdict("rate_limited_or_timeout")
    ELSE NotFoundVerdict

\* C6: failure tracking is isolated per verification: a verdict without
\* record carries an api_failure finding if and only if one of that
\* verification's own client calls exhausted its retries, whatever the other
\* workers do on the shared instance.
C6_FailureTrackingIsolated ==
    \A t \in Workers :
        (HasReturned(t) /\ verdict[t].verified_data = None) =>
            (HasApiFailure(verdict[t]) <=> own_exhausted[t])

\* C7: parallel processing yields the same verdicts as sequential
\* processing: the verdict a worker's verify_reference call returns equals
\* the verdict of a sequential call that finds the same paper and whose
\* client calls fare the same.
C7_ParallelEqualsSequential ==
    \A t \in Workers : HasReturned(t) => verdict[t] = SequentialVerdict(t)

\* C9: retry exhaustion: when every request of a verification failed
\* transiently, every client call of it gave up after exactly max_retries
\* attempts and the verdict is no record, exactly one api_failure finding,
\* no url, not the empty not-found verdict.
C9_RetryExhaustionReported ==
    \A t \in Workers :
        (HasReturned(t) /\ own_exhausted[t] /\ ~definite[t]) =>
            /\ attempts_ok[t]
            /\ verdict[t].verified_data = None
            /\ Len(verdict[t].errors) = 1
            /\ verdict[t].errors[1].error_type = "api_failure"
            /\ verdict[t].url = None

\* C10: genuine absence: when every attempted strategy failed and no client
\* call of this verification exhausted its retries, verify_reference returns
\* no record, an empty finding list and no url.
C10_GenuineAbsenceIsNoError ==
    \A t \in Workers :
        (HasReturned(t) /\ paper_data[t] = None /\ ~own_exhausted[t]) =>
            verdict[t] = NotFoundVerdict

(* --------------------------- SpecSequential ----------------------------- *)

\* A record that differs from the agreeing citation wherever it can, and
\* carries the cited arXiv id.
DifferingRecord ==
    [title_similar |-> FALSE, authors_match |-> FALSE, year |-> 2018, venue |-> TRUE,
     venue_differs |-> TRUE, arxiv |-> CitedArxivId,
     doi |-> [prefix |-> 1, suffix |-> 1, upper |-> TRUE, fragment |-> TRUE],
     open_access_pdf |-> TRUE, url |-> TRUE]

\* The agreeing citation with its DOI in a doi.org url instead of the doi field.
UrlDoiCitation == [AgreeingCitation EXCEPT !.doi_source = "url"]

\* One caller makes MaxCalls verify_reference calls, one after the other, on
\* one checker instance.
SequentialInit ==
    /\ ProcessorInit
    /\ max_workers = 1
    /\ CheckerInit
    /\ ClientIdle
    /\ UrlIdle
    /\ MatchIdle
    /\ TimingIdle
    /\ cited \in {AgreeingCitation, UrlDoiCitation}
    /\ record \in {AgreeingRecord, DifferingRecord}
    /\ calls_left = MaxCalls

SpecSequential == SequentialInit /\ [][CheckerNext]_vars

\* Properties of SpecSequential.

\* The place of a strategy in the fallback chain.
Rank(strategy) ==
    CASE strategy = "doi" -> 1
      [] strategy = "title" -> 2
      [] strategy = "arxiv" -> 3
      [] strategy = "arxiv_api" -> 4
      [] strategy = "raw" -> 5

\* The input a strategy needs is present in the reference.
HasInput(ref, strategy) ==
    CASE strategy = "doi" -> ref.doi
      [] strategy = "title" -> ref.title
      [] strategy = "arxiv" -> ref.arxiv
      [] strategy = "arxiv_api" -> ref.arxiv
      [] strategy = "raw" -> ref.raw_text

Strategies == {"doi", "title", "arxiv", "arxiv_api", "raw"}

\* The chain of caller t is over: the verdict is being built or was returned.
ChainDone(t) == vpc[t] \in {"check", "format", "returned"}

\* C12: the fallback chain is tried in the order DOI lookup, title search,
\* arXiv id search with arXiv API fallback, raw text search, and stops at the
\* first strategy that yields a candidate: the strategies invoked so far are
\* in chain order, each had its input, none but the last yielded a candidate
\* (so after a DOI lookup that returned a record no search is made), and when
\* the chain is over every strategy with its input that comes before the
\* yielding one, or every one when none yielded, was invoked.
C12_FallbackChainOrder ==
    \A t \in Workers :
        LET tr == trace[t]
            last == IF tr = <<>> THEN 0 ELSE Rank(tr[Len(tr)].strategy)
            yielded == tr # <<>> /\ tr[Len(tr)].found
        IN /\ \A k \in 1..Len(tr) :
                /\ HasInput(reference[t], tr[k].strategy)
                /\ k < Len(tr) => /\ ~tr[k].found
                                  /\ Rank(tr[k].strategy) < Rank(tr[k + 1].strategy)
           /\ ChainDone(t) =>
                /\ yielded <=> paper_data[t] # None
                /\ \A s \in Strategies :
                     (HasInput(reference[t], s) /\ (yielded => Rank(s) <= last))
                         => \E k \in 1..Len(tr) : tr[k].strategy = s

\* C12 witness: a verification that went through the whole chain and got
\* its candidate from the raw text search has returned.
C12_Witness ==
    \E t \in Workers :
        /\ HasReturned(t)
        /\ Len(trace[t]) = 5
        /\ trace[t][1].strategy = "doi" /\ ~trace[t][1].found
        /\ trace[t][5].strategy = "raw" /\ trace[t][5].found
        /\ verdict[t].verified_data = "paper"

\* C13: sequential calls on one instance are idempotent: the flag read at
\* the end of a verification is the one its own client calls left, so the
\* verdict returned is the function SequentialVerdict of the citation and of
\* what the source answered to this verification, whatever was verified
\* before on the instance; a flag set during the earlier call is cleared.
C13_SequentialIdempotence ==
    \A t \in Workers :
        /\ vpc[t] = "check" => api_failed = own_exhausted[t]
        /\ HasReturned(t) => verdict[t] = SequentialVerdict(t)
        /\ (HasReturned(t) /\ entered_with_flag[t] /\ ~own_exhausted[t]) =>
               ~HasApiFailure(verdict[t])

\* C13 witness: the second of two calls returned the not-found verdict after
\* the first one had left the failure flag set.
C13_Witness ==
    \E t \in Workers :
        /\ HasReturned(t)
        /\ calls_left = MaxCalls - 2
        /\ entered_with_flag[t]
        /\ ~own_exhausted[t]
        /\ trace[t] # <<>>
        /\ verdict[t] = NotFoundVerdict

\* C20: in the arXiv id strategy a search result that carries the cited
\* arXiv id is accepted directly, whatever its title score; the arXiv API is
\* queried only after an arXiv id search none of whose results carried that
\* id, and the record synthesized from its entry, with the cited arXiv id,
\* is the candidate.
C20_ArxivIdStrategy ==
    \A t \in Workers :
        \A k \in 1..Len(trace[t]) :
            LET entry == trace[t][k]
            IN /\ entry.strategy = "arxiv" =>
                    /\ entry.found <=> entry.cited_id
                    /\ (entry.found /\ ChainDone(t)) => paper_data[t] = "paper"
               /\ entry.strategy = "arxiv_api" =>
                    /\ k > 1
                    /\ trace[t][k - 1].strategy = "arxiv"
                    /\ ~trace[t][k - 1].cited_id
                    /\ (entry.found /\ ChainDone(t)) =>
                          /\ paper_data[t] = "arxiv_paper"
                          /\ Paper(t).arxiv = CitedArxivId
                    /\ (entry.found /\ HasReturned(t)) =>
                          /\ verdict[t].verified_data = "arxiv_paper"
                          /\ verdict[t].url = ArxivUrl(CitedArxivId)

\* C20 witness: a verification whose arXiv id search had no result with the
\* cited id returned the record synthesized from the arXiv API entry.
C20_Witness ==
    \E t \in Workers :
        /\ HasReturned(t)
        /\ \E k \in 1..Len(trace[t]) :
              trace[t][k].strategy = "arxiv_api" /\ trace[t][k].found
        /\ verdict[t].verified_data = "arxiv_paper"

\* The positions of the error findings of the given type in a verdict.
ErrorsOf(v, type) ==
    {k \in 1..Len(v.errors) :
        "error_type" \in DOMAIN v.errors[k] /\ v.errors[k].error_type = type}

\* The positions of the warning findings of the given type in a verdict.
WarningsOf(v, type) ==
    {k \in 1..Len(v.errors) :
        "warning_type" \in DOMAIN v.errors[k] /\ v.errors[k].warning_type = type}

\* Caller t's verify_reference returned a verdict with a record.
ReturnedRecord(t) == HasReturned(t) /\ verdict[t].verified_data # None

\* C14: title cross-validation applies to every accepted candidate,
\* whichever strategy accepted it: the verdict holds a title error, carrying
\* the candidate's title, exactly when the candidate's title is not similar
\* to the cited one.
C14_TitleCrossValidation ==
    \A t \in Workers :
        ReturnedRecord(t) =>
            /\ (ErrorsOf(verdict[t], "title") # {}) <=> ~Paper(t).title_similar
            /\ \A k \in ErrorsOf(verdict[t], "title") :
                  verdict[t].errors[k].ref_title_correct = "record title"

\* C18: DOI cross-validation: the verdict holds a doi error exactly when the
\* citation has a DOI, in its doi field or in a doi.org url, the candidate
\* has one, and the two differ once fragments are stripped and case is
\* ignored.
C18_DoiCrossValidation ==
    \A t \in Workers :
        ReturnedRecord(t) =>
            ((ErrorsOf(verdict[t], "doi") # {}) <=>
                /\ reference[t].doi
                /\ Paper(t).doi # NoDoi
                /\ Lower(StripFragment(cited.doi)) # Lower(StripFragment(Paper(t).doi)))

\* C21: the raw text search is the last resort for every citation: a
\* verification of a citation with empty title and non-empty raw text whose
\* last strategy is the raw text search has not raised: it builds or has
\* returned a verdict.
C21_RawSearchLastResort ==
    \A t \in Workers :
        (/\ ~reference[t].title
         /\ reference[t].raw_text
         /\ trace[t] # <<>>
         /\ trace[t][Len(trace[t])].strategy = "raw") =>
            /\ vpc[t] # "raised"
            /\ vpc[t] \in {"check", "reason, then check", "format", "returned"}


\* The verdict has no record, no url and no finding or the api_failure
\* finding alone.
AbsentShape(v) ==
    /\ v.verified_data = None
    /\ v.url = None
    /\ \/ v.errors = <<>>
       \/ Len(v.errors) = 1 /\ HasApiFailure(v)

\* The verdict has a record and no api_failure finding.
PresentShape(v) == v.verified_data # None /\ ~HasApiFailure(v)

\* C33: every verdict verify_reference returns has no record, no url and
\* either no finding or exactly one api_failure finding, or it has a record
\* and no api_failure finding; when an earlier strategy exhausted its
\* retries and a later one accepted a candidate, the verdict is the
\* cross-validated one of that candidate.
C33_VerdictShapes ==
    \A t \in Workers :
        HasReturned(t) =>
            /\ AbsentShape(verdict[t]) \/ PresentShape(verdict[t])
            /\ (own_exhausted[t] /\ paper_data[t] # None) =>
                   /\ PresentShape(verdict[t])
                   /\ verdict[t].errors =
                        CrossValidate(reference[t], cited, found_title[t], Paper(t)).errors

\* A verification whose DOI lookup exhausted its retries returned the record
\* a later strategy accepted, with findings and without api_failure.
C33_Witness ==
    \E t \in Workers :
        /\ HasReturned(t)
        /\ own_exhausted[t]
        /\ api_failed
        /\ verdict[t].verified_data # None
        /\ verdict[t].errors # <<>>
        /\ ~HasApiFailure(verdict[t])


\* The most requests one invocation of a strategy can make: those of its
\* client call, or the single request of the arXiv API fallback.
MostRequests(strategy) ==
    LET counts == IF strategy = "doi" THEN {c.requests : c \in DoiCalls}
                  ELSE IF strategy = "arxiv_api" THEN {1}
                  ELSE {c.requests : c \in SearchCalls}
    IN CHOOSE n \in counts : \A m \in counts : m <= n

\* The most requests the strategies invoked so far can have made.
RECURSIVE RequestBudget(_)
RequestBudget(tr) ==
    IF tr = <<>> THEN 0
    ELSE MostRequests(tr[Len(tr)].strategy) + RequestBudget(SubSeq(tr, 1, Len(tr) - 1))

\* Caller t is inside verify_reference.
Verifying(t) == vpc[t] \notin {"idle", "returned", "raised"}

\* C34: one verification does bounded work and ends: no strategy is run
\* twice, at most four client calls and one arXiv API request are made, the
\* requests they can amount to stay within 4 * max_retries + 1 = 21, and a
\* verification that has not returned or raised always has a next step.
C34_BoundedWork ==
    \A t \in Workers :
        LET tr == trace[t]
            client == {k \in 1..Len(tr) : tr[k].strategy # "arxiv_api"}
        IN /\ \A j, k \in 1..Len(tr) : tr[j].strategy = tr[k].strategy => j = k
           /\ Cardinality(client) <= 4
           /\ Len(tr) - Cardinality(client) <= 1
           /\ RequestBudget(tr) <= 4 * max_retries + 1
           /\ Verifying(t) => ENABLED CheckerNext

\* A verification ran all five strategies, 21 requests at most, and returned.
C34_Witness ==
    \E t \in Workers :
        /\ HasReturned(t)
        /\ Len(trace[t]) = 5
        /\ RequestBudget(trace[t]) = 4 * max_retries + 1
        /\ own_exhausted[t]

(* ------------------------------ SpecCross ------------------------------- *)

\* The DOIs citations carry: the record's DOI in every spelling, and another.
CitedDois == {d \in Dois : d.suffix = 1 \/ (~d.upper /\ ~d.fragment)}

\* How a citation carries a DOI: not at all, in its doi field, or in a
\* doi.org url.
DoiCases ==
    {[has |-> FALSE, doi |-> AgreeingCitation.doi, source |-> "field"]}
    \cup {[has |-> TRUE, doi |-> d, source |-> "field"] : d \in CitedDois}
    \cup {[has |-> TRUE, doi |-> d, source |-> "url"] :
            d \in {c \in CitedDois : ~c.upper /\ ~c.fragment}}

\* The records of the source, those with a venue only where the venue
\* heuristic applies.
SourceRecords == {r \in Records : r.venue_differs => r.venue}

\* verify_reference has accepted a candidate and is about to cross-validate
\* it (line 355): the candidate comes from the source, by DOI lookup (no
\* found_title) or by a search, or from the arXiv API for a citation with an
\* arXiv url; the citation and the record are any.
CrossInit ==
    /\ ProcessorInit
    /\ max_workers = 1
    /\ ClientIdle
    /\ UrlIdle
    /\ MatchIdle
    /\ TimingIdle
    /\ calls_left = 0
    /\ api_failed = FALSE
    /\ failure_reason = None
    /\ vpc = [t \in Workers |-> "check"]
    /\ verdict = [t \in Workers |-> NoVerdict]
    /\ own_exhausted = [t \in Workers |-> FALSE]
    /\ definite = [t \in Workers |-> TRUE]
    /\ attempts_ok = [t \in Workers |-> TRUE]
    /\ trace = [t \in Workers |-> <<>>]
    /\ entered_with_flag = [t \in Workers |-> FALSE]
    /\ \E dc \in DoiCases, arxiv \in BOOLEAN, raw_venue \in BOOLEAN, found \in BOOLEAN,
          candidate \in {"paper", "arxiv_paper"} :
        /\ ~found => dc.has
        /\ dc.source = "url" => ~arxiv
        /\ candidate = "arxiv_paper" => (arxiv /\ found)
        /\ reference = [t \in Workers |-> [doi |-> dc.has, title |-> TRUE,
                                            arxiv |-> arxiv, raw_text |-> raw_venue]]
        /\ found_title = [t \in Workers |-> found]
        /\ paper_data = [t \in Workers |-> candidate]
        /\ cited \in [authors : BOOLEAN, year : {0, 2017}, venue : BOOLEAN,
                       raw_venue : {raw_venue}, doi : {dc.doi}, doi_source : {dc.source}]
        /\ record \in IF candidate = "arxiv_paper"
                       THEN {ArxivApiRecord(r) : r \in SourceRecords}
                       ELSE SourceRecords

CrossNext == \E t \in Workers : ReturnFound(t)

SpecCross == CrossInit /\ [][CrossNext]_vars

\* Properties of SpecCross.

\* The arXiv id in the citation's url equals the candidate's.
SameArxivId(t) == reference[t].arxiv /\ Paper(t).arxiv = CitedArxivId

\* C15: author cross-validation: when authors are cited and the comparison
\* reports a mismatch the verdict holds exactly one author finding, a warning
\* if the arXiv id in the citation's url equals the candidate's and an error
\* otherwise; when no authors are cited or they match it holds none.
C15_AuthorCrossValidation ==
    \A t \in Workers :
        ReturnedRecord(t) =>
            LET errors == Cardinality(ErrorsOf(verdict[t], "author"))
                warnings == Cardinality(WarningsOf(verdict[t], "author"))
            IN IF cited.authors /\ ~Paper(t).authors_match
               THEN IF SameArxivId(t)
                    THEN errors = 0 /\ warnings = 1
                    ELSE errors = 1 /\ warnings = 0
               ELSE errors = 0 /\ warnings = 0

\* C15 witness: a verdict for a citation with an arXiv url whose authors
\* mismatch the record with the same arXiv id, holding the author warning.
C15_Witness ==
    \E t \in Workers :
        /\ ReturnedRecord(t)
        /\ cited.authors /\ ~Paper(t).authors_match
        /\ SameArxivId(t)
        /\ WarningsOf(verdict[t], "author") # {}

\* C16: year cross-validation never produces an error: when both years are
\* present and differ the verdict holds exactly one year warning carrying the
\* candidate's year, with the exact-identifier note exactly when the arXiv id
\* in the citation's url equals the candidate's; otherwise it holds no year
\* finding; it never holds a year error.
C16_YearCrossValidation ==
    \A t \in Workers :
        ReturnedRecord(t) =>
            LET warnings == WarningsOf(verdict[t], "year")
            IN /\ ErrorsOf(verdict[t], "year") = {}
               /\ IF cited.year # 0 /\ Paper(t).year # 0 /\ cited.year # Paper(t).year
                  THEN /\ Cardinality(warnings) = 1
                       /\ \A k \in warnings :
                             /\ verdict[t].errors[k].ref_year_correct = Paper(t).year
                             /\ verdict[t].errors[k].note <=> SameArxivId(t)
                  ELSE warnings = {}

\* C16 witness: cited 2017, record 2018, same arXiv id, no other
\* disagreement: the verdict is exactly one year warning and no error.
C16_Witness ==
    \E t \in Workers :
        /\ ReturnedRecord(t)
        /\ cited.year = 2017 /\ Paper(t).year = 2018
        /\ SameArxivId(t)
        /\ Len(verdict[t].errors) = 1
        /\ WarningsOf(verdict[t], "year") = {1}
        /\ verdict[t].errors[1].note

\* The venue-mismatch warnings of caller t's verdict.
VenueMismatchWarnings(t) ==
    {k \in WarningsOf(verdict[t], "venue") :
        verdict[t].errors[k].warning_details = "Venue mismatch"}

\* The venue warnings of caller t's verdict that suggest the arXiv url.
ArxivUrlSuggestions(t) ==
    {k \in WarningsOf(verdict[t], "venue") :
        verdict[t].errors[k].warning_details = "Reference should include arXiv URL"}

\* C17: venue cross-validation: a venue-mismatch warning is emitted only
\* when both sides have a venue and the heuristic says they differ; when the
\* citation has no venue and the candidate has a venue and an arXiv id, the
\* verdict holds exactly one venue warning, which suggests the arXiv url;
\* no verdict holds more than one venue finding or a venue error.
C17_VenueCrossValidation ==
    \A t \in Workers :
        ReturnedRecord(t) =>
            LET warnings == WarningsOf(verdict[t], "venue")
            IN /\ ErrorsOf(verdict[t], "venue") = {}
               /\ Cardinality(warnings) <= 1
               /\ VenueMismatchWarnings(t) # {} =>
                     (cited.venue /\ Paper(t).venue /\ Paper(t).venue_differs)
               /\ (~cited.venue /\ Paper(t).venue /\ Paper(t).arxiv # 0) =>
                     /\ Cardinality(warnings) = 1
                     /\ ArxivUrlSuggestions(t) = warnings
                     /\ \A k \in warnings :
                           verdict[t].errors[k].ref_url_correct = ArxivUrl(Paper(t).arxiv)

\* C17 witness: a citation without venue whose candidate has a venue and an
\* arXiv id got the arXiv url suggestion.
C17_Witness ==
    \E t \in Workers :
        /\ ReturnedRecord(t)
        /\ ~cited.venue /\ Paper(t).venue /\ Paper(t).arxiv # 0
        /\ ArxivUrlSuggestions(t) # {}

\* C19: url selection follows the priority arXiv abs url, open access PDF
\* url, url field, DOI url, none: each source is used exactly when the
\* candidate has it and has none of the sources before it.
C19_UrlPriority ==
    \A t \in Workers :
        ReturnedRecord(t) =>
            LET paper == Paper(t)
                url == verdict[t].url
            IN /\ paper.arxiv # 0 => url = ArxivUrl(paper.arxiv)
               /\ (paper.arxiv = 0 /\ paper.open_access_pdf) => url = "openAccessPdf url"
               /\ (paper.arxiv = 0 /\ ~paper.open_access_pdf /\ paper.url) => url = "url"
               /\ (paper.arxiv = 0 /\ ~paper.open_access_pdf /\ ~paper.url
                     /\ paper.doi # NoDoi) =>
                        url = "https://doi.org/ url of the record's DOI"
               /\ (paper.arxiv = 0 /\ ~paper.open_access_pdf /\ ~paper.url
                     /\ paper.doi = NoDoi) => url = None

\* C19 witness: a candidate with an arXiv id, an open access PDF, a url and
\* a DOI got the arXiv abs url.
C19_Witness ==
    \E t \in Workers :
        /\ ReturnedRecord(t)
        /\ Paper(t).arxiv # 0 /\ Paper(t).open_access_pdf /\ Paper(t).url
        /\ Paper(t).doi # NoDoi
        /\ verdict[t].url = ArxivUrl(Paper(t).arxiv)

(* ------------------------------- SpecUrl -------------------------------- *)

\* The open access PDF argument: None, the empty string, or a url.
PdfValues == {None, "", "https://example.org/paper.pdf"}

\* The external_ids dictionaries: per identifier type no entry (None), an
\* empty value, or an identifier in the spellings the construct_ functions
\* treat differently.
ExternalIds ==
    [DOI      : {None, "", "10.1000/XYZ"},
     ArXiv    : {None, "", "2301.00001", "2301.00001v2"},
     CorpusId : {None, "", "42"},
     OpenAlex : {None, "", "W1", "https://openalex.org/W1"},
     PubMed   : {None, "", "123", "PMID:123"}]

\* Python truthiness of an optional string.
Truthy(value) == value \notin {None, ""}

\* normalize_doi of utils.doi_utils: the DOI in lower case.
NormalizeDoi(doi) == IF doi = "10.1000/XYZ" THEN "10.1000/xyz" ELSE doi

\* construct_doi_url
ConstructDoiUrl(doi) ==
    IF ~Truthy(doi) THEN "" ELSE "https://doi.org/" \o NormalizeDoi(doi)

\* construct_arxiv_url with url_type "abs": the version suffixes v1, v2 and
\* v3 are removed from the id.
ConstructArxivUrl(arxiv_id) ==
    IF ~Truthy(arxiv_id) THEN ""
    ELSE "https://arxiv.org/abs/"
         \o (IF arxiv_id = "2301.00001v2" THEN "2301.00001" ELSE arxiv_id)

\* construct_semantic_scholar_url
ConstructSemanticScholarUrl(paper_id) ==
    IF ~Truthy(paper_id) THEN "" ELSE "https://www.semanticscholar.org/paper/" \o paper_id

\* construct_openalex_url: the https://openalex.org/ prefix is removed first.
ConstructOpenalexUrl(work_id) ==
    IF ~Truthy(work_id) THEN ""
    ELSE "https://openalex.org/"
         \o (IF work_id = "https://openalex.org/W1" THEN "W1" ELSE work_id)

\* construct_pubmed_url: the PMID: prefix is removed first.
ConstructPubmedUrl(pmid) ==
    IF ~Truthy(pmid) THEN ""
    ELSE "https://pubmed.ncbi.nlm.nih.gov/"
         \o (IF pmid = "PMID:123" THEN "123" ELSE pmid) \o "/"

\* A url selection that prefers the DOI to the open access PDF.
GetBestAvailableUrlDoiFirst(ids, pdf) ==
    IF Truthy(ids.DOI) THEN ConstructDoiUrl(ids.DOI)
    ELSE IF Truthy(pdf) THEN pdf
    ELSE IF Truthy(ids.ArXiv) THEN ConstructArxivUrl(ids.ArXiv)
    ELSE IF Truthy(ids.CorpusId) THEN ConstructSemanticScholarUrl(ids.CorpusId)
    ELSE IF Truthy(ids.OpenAlex) THEN ConstructOpenalexUrl(ids.OpenAlex)
    ELSE IF Truthy(ids.PubMed) THEN ConstructPubmedUrl(ids.PubMed)
    ELSE None

\* get_best_available_url
GetBestAvailableUrl(ids, pdf) ==
    IF Truthy(pdf) THEN pdf
    ELSE IF Truthy(ids.DOI) THEN ConstructDoiUrl(ids.DOI)
    ELSE IF Truthy(ids.ArXiv) THEN ConstructArxivUrl(ids.ArXiv)
    ELSE IF Truthy(ids.CorpusId) THEN ConstructSemanticScholarUrl(ids.CorpusId)
    ELSE IF Truthy(ids.OpenAlex) THEN ConstructOpenalexUrl(ids.OpenAlex)
    ELSE IF Truthy(ids.PubMed) THEN ConstructPubmedUrl(ids.PubMed)
    ELSE None

\* A paper record's identifiers and open access PDF, about to be passed to
\* get_best_available_url.
UrlInit ==
    /\ ProcessorInit
    /\ CheckerInit
    /\ ClientIdle
    /\ Agreeing
    /\ calls_left = 0
    /\ external_ids \in ExternalIds
    /\ open_access_pdf \in PdfValues
    /\ paper_url = NoUrl
    /\ MatchIdle
    /\ TimingIdle

\* paper_url = get_best_available_url(external_ids, open_access_pdf)
CallGetBestAvailableUrl ==
    /\ paper_url = NoUrl
    /\ external_ids \in ExternalIds
    /\ paper_url' = GetBestAvailableUrl(external_ids, open_access_pdf)
    /\ UNCHANGED <<external_ids, open_access_pdf, pvars, cvars, dvars, kvars,
                   mvars, tvars>>

UrlNext == CallGetBestAvailableUrl

SpecUrl == UrlInit /\ [][UrlNext]_vars

\* Properties of SpecUrl.

\* The source a url points to.
SourceOf(url) ==
    CASE url = "https://example.org/paper.pdf" -> "open access PDF"
      [] url = "https://doi.org/10.1000/xyz" -> "DOI"
      [] url = "https://arxiv.org/abs/2301.00001" -> "ArXiv"
      [] url = "https://www.semanticscholar.org/paper/42" -> "CorpusId"
      [] url = "https://openalex.org/W1" -> "OpenAlex"
      [] url = "https://pubmed.ncbi.nlm.nih.gov/123/" -> "PubMed"
      [] OTHER -> "none"

\* The sources in the order of their priority.
SourcePriority == <<"open access PDF", "DOI", "ArXiv", "CorpusId", "OpenAlex", "PubMed">>

\* The source is present in the arguments of the call.
SourcePresent(source) ==
    IF source = "open access PDF" THEN Truthy(open_access_pdf)
    ELSE Truthy(external_ids[source])

\* C24: get_best_available_url returns the url of the highest-priority
\* source present, in the order open access PDF, DOI, ArXiv, Semantic
\* Scholar (CorpusId), OpenAlex, PubMed, and returns None exactly when no
\* source is present.
C24_BestAvailableUrl ==
    paper_url # NoUrl =>
        /\ \A k \in 1..Len(SourcePriority) :
              (/\ SourcePresent(SourcePriority[k])
               /\ \A j \in 1..(k - 1) : ~SourcePresent(SourcePriority[j]))
                  => /\ paper_url # None
                     /\ SourceOf(paper_url) = SourcePriority[k]
        /\ paper_url = None <=>
              \A k \in 1..Len(SourcePriority) : ~SourcePresent(SourcePriority[k])

\* C24 witness: with no open access PDF and every identifier present the
\* DOI url was returned.
C24_Witness ==
    /\ paper_url # NoUrl
    /\ ~Truthy(open_access_pdf)
    /\ \A k \in 2..Len(SourcePriority) : SourcePresent(SourcePriority[k])
    /\ paper_url = "https://doi.org/10.1000/xyz"


(* ------------------------------ SpecMatch ------------------------------- *)

\* LocalNonArxivReferenceChecker.find_best_match on its own: one call with
\* given arguments against a given papers table.

\* The texts of the titles: spellings of "deep learning survey" that differ
\* in spacing and punctuation only (one space, two spaces, a hyphen, a full
\* stop at the end), and the shorter title "deep learning".
Spellings ==
    {<<"deep", " ", "learning", " ", "survey">>,
     <<"deep", " ", " ", "learning", " ", "survey">>,
     <<"deep", " ", "learning", "-", "survey">>,
     <<"deep", " ", "learning", " ", "survey", ".">>,
     <<"deep", "-", "learning", "-", "survey">>,
     <<"deep", " ", "learning">>}

\* The arguments of find_best_match: the title as cited (capitalised or
\* not), whether authors is non-empty, and year (0 for None).
FindArgs ==
    [title : [text : Spellings, upper : BOOLEAN], authors : BOOLEAN, year : {0, 2017}]

\* A row of the papers table as the search returns it: its title (stored
\* capitalised), whether it has authors whose first one is_name_match
\* accepts for the first cited author, and its year.
PaperRows ==
    [title : [text : Spellings, upper : {TRUE}], author_match : BOOLEAN,
     year : {2017, 2018}]

\* The papers tables, in row order.
Tables == UNION {[1..n -> PaperRows] : n \in 0..MaxPapers}

\* normalize_paper_title: lower case, letters and digits only.
NormalizePaperTitle(title) ==
    LET Kept(c) == c \notin {" ", "-", "."}
    IN SelectSeq(title.text, Kept)

\* search_papers_by_title: the rows whose normalized_paper_title equals the
\* normalized cited title; nothing when that is empty.
SearchPapersByTitle(title, rows) ==
    LET title_normalized == NormalizePaperTitle(title)
        Selected(row) == NormalizePaperTitle(row.title) = title_normalized
    IN IF title_normalized = <<>> THEN <<>> ELSE SelectSeq(rows, Selected)

\* Python's "a in b" on strings: a occurs in b as a run of characters.
TitleIn(a, b) ==
    /\ a.upper = b.upper
    /\ \E i \in 0..(Len(b.text) - Len(a.text)) :
           SubSeq(b.text, i + 1, i + Len(a.text)) = a.text

\* text.split() from position k on, word being the characters read since the
\* last space: the set of the words between runs of spaces.
RECURSIVE Split(_, _, _)
Split(text, k, word) ==
    LET ended == IF word = <<>> THEN {} ELSE {word}
    IN IF k > Len(text) THEN ended
       ELSE IF text[k] = " " THEN ended \cup Split(text, k + 1, <<>>)
       ELSE Split(text, k + 1, Append(word, text[k]))

\* set(title.split())
WordSet(title) == {[text |-> w, upper |-> title.upper] : w \in Split(title.text, 1, <<>>)}

\* Scores are held as multiples of 1/30, so that 0.8, 0.2, 0.1, 0.7 and the
\* word overlaps of titles of up to three words are integers.
ScoreScale == 2 * 3 * 5

\* n tenths as a score.
Tenths(n) == n * (ScoreScale \div 10)

\* The threshold of the local find_best_match: best_score >= 0.7.
LocalThreshold == Tenths(7)

\* A title score that takes the better of containment and word overlap.
TitleScoreBlended(title, result_title) ==
    LET title_lower == Lower(title)
        result_lower == Lower(result_title)
        title_words == WordSet(title_lower)
        result_words == WordSet(result_lower)
        larger == IF Cardinality(title_words) >= Cardinality(result_words)
                  THEN Cardinality(title_words) ELSE Cardinality(result_words)
        overlap == IF title_words = {} \/ result_words = {} THEN 0
                   ELSE (Cardinality(title_words \cap result_words) * ScoreScale) \div larger
        contained == IF TitleIn(title_lower, result_lower) \/ TitleIn(result_lower, title_lower)
                     THEN Tenths(8) ELSE 0
    IN IF overlap > contained THEN overlap ELSE contained

\* Lines 272-288: the score of a result's title against the cited title.
TitleScore(title, result_title) ==
    LET title_lower == Lower(title)
        result_lower == Lower(result_title)
    IN IF TitleIn(title_lower, result_lower) \/ TitleIn(result_lower, title_lower)
       THEN Tenths(8)
       ELSE LET title_words == WordSet(title_lower)
                result_words == WordSet(result_lower)
                common_words == title_words \cap result_words
                larger == IF Cardinality(title_words) >= Cardinality(result_words)
                          THEN Cardinality(title_words) ELSE Cardinality(result_words)
            IN IF title_words = {} \/ result_words = {} THEN 0
               ELSE (Cardinality(common_words) * ScoreScale) \div larger

\* Lines 272-301: the score of one result.
CandidateScore(args, result) ==
    TitleScore(args.title, result.title)
      + (IF args.authors /\ result.author_match THEN Tenths(2) ELSE 0)
      + (IF args.year # 0 /\ result.year = args.year THEN Tenths(1) ELSE 0)

\* A loop that lets a later result replace an equally good earlier one.
RECURSIVE BestOfLatest(_, _, _, _)
BestOfLatest(args, title_results, k, best) ==
    IF k > Len(title_results) THEN best
    ELSE LET score == CandidateScore(args, title_results[k])
         IN BestOfLatest(args, title_results, k + 1,
                         IF score >= best.best_score /\ score > 0
                         THEN [best_match |-> k, best_score |-> score]
                         ELSE best)

\* The loop over title_results from result k on: best_match (as the position
\* of the result, 0 for None) and best_score.
RECURSIVE BestOf(_, _, _, _)
BestOf(args, title_results, k, best) ==
    IF k > Len(title_results) THEN best
    ELSE LET score == CandidateScore(args, title_results[k])
         IN BestOf(args, title_results, k + 1,
                   IF score > best.best_score
                   THEN [best_match |-> k, best_score |-> score]
                   ELSE best)

\* find_best_match: the scores of the results, the best of them, and what is
\* returned (NoPaper for None).
FindBestMatch(args, rows) ==
    LET title_results == SearchPapersByTitle(args.title, rows)
        best == BestOf(args, title_results, 1, [best_match |-> 0, best_score |-> 0])
    IN [called |-> TRUE,
        scores |-> [k \in 1..Len(title_results) |->
                      CandidateScore(args, title_results[k])],
        best_match |-> best.best_match,
        best_score |-> best.best_score,
        returned |-> IF title_results # <<>> /\ best.best_score >= LocalThreshold
                     THEN title_results[best.best_match]
                     ELSE NoPaper]

MatchInit ==
    /\ ProcessorInit
    /\ max_workers = 1
    /\ CheckerInit
    /\ ClientIdle
    /\ Agreeing
    /\ UrlIdle
    /\ TimingIdle
    /\ calls_left = 0
    /\ papers \in Tables
    /\ find_args \in FindArgs
    /\ find_result = NoFind

\* find_result = find_best_match(title, authors, year)
CallFindBestMatch ==
    /\ ~find_result.called
    /\ find_args \in FindArgs
    /\ find_result' = FindBestMatch(find_args, papers)
    /\ UNCHANGED <<papers, find_args, pvars, cvars, dvars, kvars, uvars, tvars>>

SpecMatch == MatchInit /\ [][CallFindBestMatch]_vars

\* Properties of SpecMatch.

\* The results the call scored.
TitleResults == SearchPapersByTitle(find_args.title, papers)


\* The words of a text: its runs of characters other than the space that
\* no neighbouring character extends.
WordsOf(text) ==
    {SubSeq(text, i, j) : <<i, j>> \in
        {p \in (1..Len(text)) \X (1..Len(text)) :
            /\ p[1] <= p[2]
            /\ \A c \in p[1]..p[2] : text[c] # " "
            /\ p[1] = 1 \/ text[p[1] - 1] = " "
            /\ p[2] = Len(text) \/ text[p[2] + 1] = " "}}

\* One lower-cased title contains the other.
EitherContains(a, b) == TitleIn(Lower(a), Lower(b)) \/ TitleIn(Lower(b), Lower(a))

\* The first-author bonus and the year bonus a result earns.
AuthorBonus(args, result) == args.authors /\ result.author_match
YearBonus(args, result) == args.year # 0 /\ result.year = args.year

\* C35: the score of every candidate of find_best_match is base plus
\* bonuses: base is 0.8 when either lower-cased title contains the other,
\* whatever the word overlap, and otherwise |common words| / max(|cited
\* words|, |candidate words|), 0 when either word set is empty; 0.2 is added
\* when the first authors match and 0.1 when a cited year is given and equals
\* the candidate's; containment with both bonuses scores 1.1.
C35_CandidateScore ==
    find_result.called =>
        /\ Len(find_result.scores) = Len(TitleResults)
        /\ \A k \in 1..Len(TitleResults) :
            LET result == TitleResults[k]
                score == find_result.scores[k]
                cited_words == WordsOf(find_args.title.text)
                candidate_words == WordsOf(result.title.text)
                common == cited_words \cap candidate_words
                bonuses == (IF AuthorBonus(find_args, result) THEN 2 * ScoreScale ELSE 0)
                             + (IF YearBonus(find_args, result) THEN ScoreScale ELSE 0)
                base == score * 10 - bonuses
            IN /\ EitherContains(find_args.title, result.title) => base = 8 * ScoreScale
               /\ ~EitherContains(find_args.title, result.title) =>
                    /\ (cited_words = {} \/ candidate_words = {}) => base = 0
                    /\ \A larger \in {Cardinality(cited_words), Cardinality(candidate_words)} :
                         (/\ larger >= Cardinality(cited_words)
                          /\ larger >= Cardinality(candidate_words)
                          /\ larger > 0)
                            => base * larger = 10 * ScoreScale * Cardinality(common)
               /\ (/\ EitherContains(find_args.title, result.title)
                   /\ AuthorBonus(find_args, result)
                   /\ YearBonus(find_args, result)) => score * 10 = 11 * ScoreScale

\* A call scored one result 1.1, a title containing the cited one with both
\* bonuses, and another 2/3 + 0.2 + 0.1 by word overlap, two of its three
\* words being cited.
C35_Witness ==
    /\ find_result.called
    /\ Len(TitleResults) = 2
    /\ EitherContains(find_args.title, TitleResults[1].title)
    /\ find_result.scores[1] * 10 = 11 * ScoreScale
    /\ ~EitherContains(find_args.title, TitleResults[2].title)
    /\ find_result.scores[2] * 30 = 29 * ScoreScale

\* The highest of the scores of a call, 0 when there are none.
TopScore ==
    IF find_result.scores = <<>> THEN 0
    ELSE CHOOSE s \in Range(find_result.scores) :
            \A o \in Range(find_result.scores) : o <= s

\* The position of the earliest result with the highest score.
EarliestTop ==
    CHOOSE k \in 1..Len(find_result.scores) :
        /\ find_result.scores[k] = TopScore
        /\ \A j \in 1..(k - 1) : find_result.scores[j] < TopScore

ExactTitle(result) == Lower(result.title) = Lower(find_args.title)

\* C37: an exact title match is never outranked on title alone: of two
\* candidates with equal author and year bonuses, the one whose lower-cased
\* title is identical to the cited title scores at least as high as one
\* whose title differs from it.
C37_ExactMatchNotOutranked ==
    find_result.called =>
        \A j, k \in 1..Len(TitleResults) :
            (/\ ExactTitle(TitleResults[j])
             /\ ~ExactTitle(TitleResults[k])
             /\ AuthorBonus(find_args, TitleResults[j]) = AuthorBonus(find_args, TitleResults[k])
             /\ YearBonus(find_args, TitleResults[j]) = YearBonus(find_args, TitleResults[k]))
                => find_result.scores[j] >= find_result.scores[k]


(* ------------------------------ SpecStats ------------------------------- *)

\* The timing part of _update_stats on its own: a series of calls with
\* processing times in whole seconds.

\* An average that is the mean of the old average and the new time.
UpdateTimingHalving(stats, proc_time) ==
    [total_processed |-> stats.total_processed + 1,
     fastest_time |-> IF proc_time < stats.fastest_time THEN proc_time
                      ELSE stats.fastest_time,
     slowest_time |-> IF proc_time > stats.slowest_time THEN proc_time
                      ELSE stats.slowest_time,
     avg_processing_time |->
        [num |-> stats.avg_processing_time.num + proc_time * stats.avg_processing_time.den,
         den |-> stats.avg_processing_time.den * 2]]

\* _update_stats, lines 325 and 330-338: the count, min and max of the
\* times, and ((current_avg * (total - 1)) + proc_time) / total as a fraction.
UpdateTiming(stats, proc_time) ==
    LET total == stats.total_processed + 1
        current_avg == stats.avg_processing_time
    IN [total_processed |-> total,
        fastest_time |-> IF proc_time < stats.fastest_time THEN proc_time
                         ELSE stats.fastest_time,
        slowest_time |-> IF proc_time > stats.slowest_time THEN proc_time
                         ELSE stats.slowest_time,
        avg_processing_time |->
           [num |-> current_avg.num * (total - 1) + proc_time * current_avg.den,
            den |-> current_avg.den * total]]

StatsInit ==
    /\ ProcessorInit
    /\ max_workers = 1
    /\ CheckerInit
    /\ ClientIdle
    /\ Agreeing
    /\ UrlIdle
    /\ MatchIdle
    /\ TimingIdle
    /\ calls_left = 0

\* self._update_stats(result) for a result with the given processing_time.
CallUpdateStats ==
    /\ Len(proc_times) < MaxUpdates
    /\ \E proc_time \in 0..MaxTime :
        /\ timing_stats' = UpdateTiming(timing_stats, proc_time)
        /\ proc_times' = Append(proc_times, proc_time)
    /\ UNCHANGED <<pvars, cvars, dvars, kvars, uvars, mvars>>

SpecStats == StatsInit /\ [][CallUpdateStats]_vars

\* Properties of SpecStats.

\* t1 + ... + tk
RECURSIVE SumOf(_)
SumOf(times) == IF times = <<>> THEN 0 ELSE Head(times) + SumOf(Tail(times))

====
